---- MODULE Spec2Model ----
(***************************************************************************)
(* State-machine model of the print-process synchronisation engine         *)
(* (RunFull, RunFullDynamic, moveStage in src/src/individualCommands.cpp)  *)
(* and of the parts of the SMC100C driver they call                        *)
(* (src/src/SMC100C.cpp, src/dependencies/include/SMC100C.h).              *)
(*                                                                         *)
(* Strings are sequences of ASCII codes, so that std::string comparison,   *)
(* substr and the regular expression of customSort are computed, not       *)
(* assumed.  Times are counted in display frames.  Distances are integers. *)
(***************************************************************************)
EXTENDS Integers, Sequences, FiniteSets, TLC

(***************************************************************************)
(* Bounds of the model                                                     *)
(***************************************************************************)
\* directories hold 1..MaxImages image files
MaxImages == 3
\* exposure frame counts range over 1..MaxCount
MaxCount == 2
\* at most MaxRetry status queries of one moveStage call raise an exception
MaxRetry == 1

\* number of the first layer file of a directory: the files are
\* SEC_9.PNG, SEC_10.PNG, ... so that numeric and lexicographic order differ
FirstLayer == 9

\* values the parameters of a run are drawn from
InitialLayersRange == 0 .. 2
DarkTimes == {0, 1}
RepeatCounts == {1, 2}
StepSizes == {1}
PumpDistances == {2}
InputCurrents == {50}
\* the clock is read only to compare an elapsed time with a dark time, so
\* elapsed times are counted up to DarkCap frames
DarkCap == (CHOOSE d \in DarkTimes : \A e \in DarkTimes : e <= d) + 1

(***************************************************************************)
(* Strings                                                                 *)
(***************************************************************************)
Ascii ==
    [c \in {"0","1","2","3","4","5","6","7","8","9"} |->
        CASE c = "0" -> 48 [] c = "1" -> 49 [] c = "2" -> 50 [] c = "3" -> 51
          [] c = "4" -> 52 [] c = "5" -> 53 [] c = "6" -> 54 [] c = "7" -> 55
          [] c = "8" -> 56 [] c = "9" -> 57]
    @@ [c \in {"A","B","C","D","E","F","G","N","P","S","T","_",".","\r","\n"} |->
        CASE c = "A" -> 65 [] c = "B" -> 66 [] c = "C" -> 67 [] c = "D" -> 68
          [] c = "E" -> 69 [] c = "F" -> 70 [] c = "G" -> 71 [] c = "N" -> 78
          [] c = "P" -> 80 [] c = "S" -> 83 [] c = "T" -> 84 [] c = "_" -> 95
          [] c = "." -> 46 [] c = "\r" -> 13 [] c = "\n" -> 10]
    @@ [c \in {"H","I","J","K","L","M","O","Q","R","U","V","W","X","Y","Z"} |->
        CASE c = "H" -> 72 [] c = "I" -> 73 [] c = "J" -> 74 [] c = "K" -> 75
          [] c = "L" -> 76 [] c = "M" -> 77 [] c = "O" -> 79 [] c = "Q" -> 81
          [] c = "R" -> 82 [] c = "U" -> 85 [] c = "V" -> 86 [] c = "W" -> 87
          [] c = "X" -> 88 [] c = "Y" -> 89 [] c = "Z" -> 90]
    @@ [c \in {" ","-","?","b",",","/"} |->
        CASE c = " " -> 32 [] c = "-" -> 45 [] c = "?" -> 63 [] c = "b" -> 98
          [] c = "," -> 44 [] c = "/" -> 47]
    @@ [c \in {"e","i","m","o","r","t","u"} |->
        CASE c = "e" -> 101 [] c = "i" -> 105 [] c = "m" -> 109 [] c = "o" -> 111
          [] c = "r" -> 114 [] c = "t" -> 116 [] c = "u" -> 117]

\* the string whose characters are the one-character strings of t
Str(t) == [i \in 1 .. Len(t) |-> Ascii[t[i]]]

IsDigit(ch) == ch >= 48 /\ ch <= 57

RECURSIVE DecimalDigits(_)
\* std::to_string of a non-negative int
DecimalDigits(n) ==
    IF n < 10 THEN <<48 + n>> ELSE Append(DecimalDigits(n \div 10), 48 + (n % 10))

RECURSIVE stoi(_)
\* std::stoi of a string of decimal digits
stoi(ds) ==
    IF Len(ds) = 0 THEN 0
    ELSE 10 * stoi(SubSeq(ds, 1, Len(ds) - 1)) + (ds[Len(ds)] - 48)

\* the largest int
INT_MAX == 2147483647

RECURSIVE StripZeros(_)
\* the digits without their leading zeros
StripZeros(ds) == IF ds # <<>> /\ ds[1] = 48 THEN StripZeros(Tail(ds)) ELSE ds

\* std::string operator<
StringLess(a, b) ==
    \/ \E i \in 1 .. Len(a) :
          /\ i <= Len(b)
          /\ a[i] < b[i]
          /\ \A j \in 1 .. i - 1 : a[j] = b[j]
    \/ /\ Len(a) < Len(b)
       /\ \A j \in 1 .. Len(a) : a[j] = b[j]

\* std::stoi throws std::out_of_range: the digits stand for more than INT_MAX
OutOfRange(ds) ==
    LET t == StripZeros(ds) IN
    \/ Len(t) > Len(DecimalDigits(INT_MAX))
    \/ Len(t) = Len(DecimalDigits(INT_MAX)) /\ StringLess(DecimalDigits(INT_MAX), t)

\* the file name SEC_<n>.PNG
SecName(n) == Str(<<"S","E","C","_">>) \o DecimalDigits(n) \o Str(<<".","P","N","G">>)

(***************************************************************************)
(* customSort and the std::sort of the image paths                         *)
(***************************************************************************)
\* the matches of the regular expression SEC_(\d+)\.PNG in s: <<i, j>> when
\* "SEC_" starts at i, the digits are s[i+4 .. j] and ".PNG" follows
RegexMatches(s) ==
    {m \in {i \in 1 .. Len(s) : s[i] = 83} \X {j \in 1 .. Len(s) - 1 : s[j + 1] = 46} :
        /\ m[1] + 4 <= m[2]
        /\ m[2] + 4 <= Len(s)
        /\ SubSeq(s, m[1], m[1] + 3) = Str(<<"S","E","C","_">>)
        /\ \A k \in m[1] + 4 .. m[2] : IsDigit(s[k])
        /\ SubSeq(s, m[2] + 1, m[2] + 4) = Str(<<".","P","N","G">>)}

\* std::regex_search: whether there is a match
regex_search(s) == RegexMatches(s) # {}

\* matchA[1]: the digits captured by the leftmost match
Capture(s) ==
    LET m == CHOOSE x \in RegexMatches(s) : \A y \in RegexMatches(s) : x[1] <= y[1]
    IN  SubSeq(s, m[1] + 4, m[2])

\* the order of the names alone
customSort_ByName(a, b) == StringLess(a, b)

\* the order of the captured digits as text
customSort_ByDigits(a, b) ==
    IF regex_search(a) /\ regex_search(b)
    THEN StringLess(Capture(a), Capture(b))
    ELSE StringLess(a, b)

\* bool customSort(const std::string& a, const std::string& b)
customSort(a, b) ==
    IF regex_search(a) /\ regex_search(b)
    THEN stoi(Capture(a)) < stoi(Capture(b))
    ELSE StringLess(a, b)

RECURSIVE InsertSorted(_, _)
InsertSorted(x, s) ==
    IF s = <<>> THEN <<x>>
    ELSE IF customSort(x, s[1]) THEN <<x>> \o s
    ELSE <<s[1]>> \o InsertSorted(x, Tail(s))

RECURSIVE SortPaths(_)
\* std::sort(imagePaths.begin(), imagePaths.end(), customSort)
SortPaths(s) ==
    IF s = <<>> THEN <<>> ELSE InsertSorted(s[Len(s)], SortPaths(SubSeq(s, 1, Len(s) - 1)))

RECURSIVE InsertByName(_, _)
InsertByName(x, s) ==
    IF s = <<>> THEN <<x>>
    ELSE IF StringLess(x, s[1]) THEN <<x>> \o s
    ELSE <<s[1]>> \o InsertByName(x, Tail(s))

RECURSIVE ByName(_)
\* the names SEC_<FirstLayer>.PNG ... of n layers in the order of their names
ByName(n) ==
    IF n = 0 THEN <<>> ELSE InsertByName(SecName(FirstLayer + n - 1), ByName(n - 1))

\* what the directory iterator delivers: the files of a directory of
\* 1..MaxImages layers, enumerated in the order of their names
Listings == {ByName(n) : n \in 1 .. MaxImages}

(***************************************************************************)
(* SMC100C driver: what the run and moveStage use of it                    *)
(***************************************************************************)
StatusLibrary ==
    << [Code |-> Str(<<"0","A">>), Type |-> "NoReference"],
       [Code |-> Str(<<"0","B">>), Type |-> "NoReference"],
       [Code |-> Str(<<"0","C">>), Type |-> "NoReference"],
       [Code |-> Str(<<"0","D">>), Type |-> "NoReference"],
       [Code |-> Str(<<"0","E">>), Type |-> "NoReference"],
       [Code |-> Str(<<"0","F">>), Type |-> "NoReference"],
       [Code |-> Str(<<"1","0">>), Type |-> "NoReference"],
       [Code |-> Str(<<"1","1">>), Type |-> "NoReference"],
       [Code |-> Str(<<"1","4">>), Type |-> "Config"],
       [Code |-> Str(<<"1","E">>), Type |-> "Homing"],
       [Code |-> Str(<<"1","F">>), Type |-> "Homing"],
       [Code |-> Str(<<"2","8">>), Type |-> "Moving"],
       [Code |-> Str(<<"3","2">>), Type |-> "Ready"],
       [Code |-> Str(<<"3","3">>), Type |-> "Ready"],
       [Code |-> Str(<<"3","4">>), Type |-> "Ready"],
       [Code |-> Str(<<"3","5">>), Type |-> "Ready"],
       [Code |-> Str(<<"3","C">>), Type |-> "Disabled"],
       [Code |-> Str(<<"3","D">>), Type |-> "Disabled"],
       [Code |-> Str(<<"3","E">>), Type |-> "Disabled"],
       [Code |-> Str(<<"4","6">>), Type |-> "Jogging"],
       [Code |-> Str(<<"4","7">>), Type |-> "Jogging"] >>

\* the text GetCurrentStatus returns for a status type
StatusText(type) ==
    CASE type = "Config" -> "Configuration"
      [] type = "NoReference" -> "No Reference"
      [] type = "Homing" -> "Homing"
      [] type = "Moving" -> "Moving"
      [] type = "Ready" -> "Ready"
      [] type = "Disabled" -> "Disabled"
      [] type = "Jogging" -> "Jogging"
      [] type = "Error" -> "Error"
      [] type = "Unknown" -> "Unknown"
      [] OTHER -> "Unknown Status"

\* what SerialRead can return for a status query: a status line
\* "1TS0000<code>\r\n", or the texts it substitutes for a read time-out
\* (readString = 0) and for a full buffer (readString = -3)
StatusLine(code) == Str(<<"1","T","S","0","0","0","0">>) \o code \o Str(<<"\r","\n">>)
TimeoutText == Str(<<"T","i","m","e","o","u","t">>)
ErrorText == Str(<<"E","r","r","o","r">>)
SerialReadResults ==
    {StatusLine(Str(<<"3","3">>)), StatusLine(Str(<<"2","8">>)), TimeoutText, ErrorText}

\* std::string::substr(pos, n), pos 0-based; "throws" when pos > size()
substr(s, pos, n) ==
    IF pos > Len(s) THEN [throws |-> TRUE, str |-> <<>>]
    ELSE [throws |-> FALSE,
          str |-> SubSeq(s, pos + 1, IF pos + n <= Len(s) THEN pos + n ELSE Len(s))]

\* GetCurrentStatus with the plain name "Unknown" for a token without entry
GetCurrentStatus_PlainUnknown(response) ==
    LET statusCode == substr(response, 7, 2)
        hits == {i \in 1 .. Len(StatusLibrary) : StatusLibrary[i].Code = statusCode.str}
    IN  IF statusCode.throws
        THEN [throws |-> TRUE, text |-> "", tail |-> <<>>]
        ELSE IF hits # {}
        THEN [throws |-> FALSE,
              text |-> StatusText(StatusLibrary[CHOOSE i \in hits : \A j \in hits : i <= j].Type),
              tail |-> <<>>]
        ELSE [throws |-> FALSE, text |-> "Unknown", tail |-> <<>>]
\* GetCurrentStatus on the response SerialRead returned: the text returned
\* (text followed by the characters of tail), or the exception of substr
GetCurrentStatus(response) ==
    LET statusCode == substr(response, 7, 2)
        hits == {i \in 1 .. Len(StatusLibrary) : StatusLibrary[i].Code = statusCode.str}
    IN  IF statusCode.throws
        THEN [throws |-> TRUE, text |-> "", tail |-> <<>>]
        ELSE IF hits # {}
        THEN [throws |-> FALSE,
              text |-> StatusText(StatusLibrary[CHOOSE i \in hits : \A j \in hits : i <= j].Type),
              tail |-> <<>>]
        ELSE [throws |-> FALSE, text |-> "Unknown Status Code: ", tail |-> statusCode.str]

\* controller.GetCurrentStatus() == "Ready"
IsReady(st) == ~st.throws /\ st.text = "Ready" /\ st.tail = <<>>

(***************************************************************************)
(* State                                                                   *)
(***************************************************************************)
VARIABLES
    args,          \* the arguments of the run and what the directory holds
    loop,          \* the locals of RunFull / RunFullDynamic
    loopPc,        \* where the presentation loop is
    env,           \* window, abort flag, light engine, serial port
    task,          \* the moveStage task behind the future stageThread
    exposed,       \* history: one record per completed light phase
    hist,          \* history: frames presented, tasks launched, how the loop ended
    moveLog,       \* history: what the current moveStage call did
    shutdownLog,   \* history: the steps taken after the loop
    smc,           \* the SMC100C object and what it wrote to and read from its port
    reader,        \* the locals of readSettingsOrdered and the file it reads
    sorter,        \* the file names handed to customSort and what it returned
    waiter,        \* the locals of waitForPosition and what it did
    engine,        \* the locals of TurnLightEngineOn
    port,          \* the locals of readString and the bytes on the line
    query,         \* a get operation of the driver and the receive buffer of its port
    worker         \* where Worker::process is, its flags and the signals it emitted

\* the state of a run
runVars == <<args, loop, loopPc, env, task, exposed, hist, moveLog, shutdownLog>>

\* the state of the functions followed on their own
unitVars == <<sorter, waiter, engine, port, query, worker>>

vars == <<args, loop, loopPc, env, task, exposed, hist, moveLog, shutdownLog, smc, reader,
          sorter, waiter, engine, port, query, worker>>

\* no call of these functions is in progress
NotCalled == [pc |-> "idle"]

UnitsIdle ==
    /\ sorter = NotCalled /\ waiter = NotCalled /\ engine = NotCalled
    /\ port = NotCalled /\ query = NotCalled /\ worker = NotCalled

\* the sub-moves of one moveStage call, in the order of the calls of
\* moveAndCheckReady
SubMoves(stepSize, isClip, dlpPumpingAction) ==
    (IF ~isClip THEN <<-1 * dlpPumpingAction>> ELSE <<>>)
    \o <<stepSize>>
    \o (IF ~isClip THEN <<dlpPumpingAction>> ELSE <<>>)

TaskSubMoves == SubMoves(args.stepSize, args.isClip, args.dlpPumpingAction)

TaskIdle == [pc |-> "idle", sub |-> 0, exc |-> 0]

\* std::async(std::launch::async, moveStage, ...): the task starts at the
\* first call of moveAndCheckReady
TaskLaunched == [pc |-> "move", sub |-> 1, exc |-> 0]

(***************************************************************************)
(* Arguments of a run                                                      *)
(***************************************************************************)
LayerSettings(i, e, d) == [intensity |-> i, exposureTime |-> e, darkTime |-> d]

SettingsA == LayerSettings(10, 1, 0)
SettingsB == LayerSettings(20, 2, 1)

\* tables as readSettingsOrdered builds them: distinct settings, counts >= 1
SettingsTables ==
    {<< <<s, c>> >> : s \in {SettingsA, SettingsB}, c \in RepeatCounts}
    \cup {<< <<SettingsA, c1>>, <<SettingsB, c2>> >> : c1 \in RepeatCounts, c2 \in RepeatCounts}
    \cup {<< <<SettingsB, c1>>, <<SettingsA, c2>> >> : c1 \in RepeatCounts, c2 \in RepeatCounts}

StaticArgs ==
    [mode : {"static"}, directory : Listings, dirReadable : BOOLEAN, undecodable : {{}},
     maxImageDisplayCount : 1 .. MaxCount, initialExposureCounter : 1 .. MaxCount,
     initialLayers : InitialLayersRange, mindarktime : DarkTimes,
     stepSize : StepSizes, isClip : BOOLEAN, dlpPumpingAction : PumpDistances,
     orderedSettings : {<<>>}]

DynamicArgs ==
    [mode : {"dynamic"}, directory : Listings, dirReadable : BOOLEAN, undecodable : {{}},
     maxImageDisplayCount : {0}, initialExposureCounter : {0},
     initialLayers : {0}, mindarktime : {0},
     stepSize : StepSizes, isClip : BOOLEAN, dlpPumpingAction : PumpDistances,
     orderedSettings : SettingsTables]

\* an SMC100C object on which no operation was called yet
SmcConstructed ==
    [pc |-> "idle", Type |-> "None",
     CommandToPrint |-> [Command |-> 0, Parameter |-> 0, GetOrSet |-> "None"],
     written |-> <<>>, sent |-> FALSE, short |-> "none", response |-> <<>>,
     status |-> [throws |-> FALSE, text |-> "", tail |-> <<>>]]

\* readSettingsOrdered not called
ReaderIdle ==
    [pc |-> "idle", file |-> <<>>, line |-> 0, orderedSettings |-> <<>>,
     settingsCount |-> <<>>, source |-> <<>>, loaded |-> <<>>, pass |-> 0]

\* the locals of RunFull / RunFullDynamic as declared
LoopLocals ==
    [imagePaths |-> <<>>, textures |-> << <<>>, <<>> >>, currentTextureIndex |-> 0,
     currentImageIndex |-> 0, nextImageLoaded |-> FALSE, isNextImageLoading |-> FALSE,
     allImagesShown |-> FALSE, isStageThreadRunning |-> FALSE, darkElapsed |-> DarkCap,
     imageDisplayCount |-> 0, filenameLogged |-> FALSE, inLightPhase |-> TRUE,
     displayImage |-> TRUE, currentLayer |-> 0, inInitialPhase |-> TRUE,
     maxImageDisplayCount |-> 0, darkDuration |-> 0, group |-> 0, layercounter |-> 0]

Init ==
    /\ args \in StaticArgs \cup DynamicArgs
    /\ (~args.dirReadable => args.directory = <<SecName(FirstLayer)>>)
    /\ loop = LoopLocals
    /\ loopPc = "start"
    /\ \E c \in InputCurrents :
          env = [windowOpen |-> TRUE, closeRequested |-> FALSE, abortFlag |-> FALSE,
                 current |-> c, screen |-> "none", portOpen |-> FALSE]
    /\ task = TaskIdle
    /\ exposed = <<>>
    /\ hist = [imageFrames |-> 0, phaseFrames |-> 0, launches |-> 0, inFlight |-> 0,
               darkPhases |-> 0, badReads |-> 0, exit |-> "none"]
    /\ moveLog = <<>>
    /\ shutdownLog = <<>>
    /\ smc = SmcConstructed
    /\ reader = ReaderIdle
    /\ UnitsIdle

(***************************************************************************)
(* The operator and the window                                             *)
(***************************************************************************)
Running == loopPc \notin {"start", "returned", "aborted", "exited", "crashed"}

\* Worker::setAbortFlag(true)
SetAbortFlag ==
    /\ Running
    /\ ~env.abortFlag
    /\ env' = [env EXCEPT !.abortFlag = TRUE]
    /\ UNCHANGED <<smc, reader, unitVars, args, loop, loopPc, task, exposed, hist, moveLog, shutdownLog>>

\* the window system queues an sf::Event::Closed
CloseEvent ==
    /\ Running
    /\ env.windowOpen
    /\ ~env.closeRequested
    /\ env' = [env EXCEPT !.closeRequested = TRUE]
    /\ UNCHANGED <<smc, reader, unitVars, args, loop, loopPc, task, exposed, hist, moveLog, shutdownLog>>

\* getAbortFlag() at the top of an iteration with displayImage set
AbortIgnored(e) == FALSE
AbortObserved(e) == e.abortFlag

\* while (window.pollEvent(event)) if (event.type == Closed) window.close();
PollEvents(e) ==
    [e EXCEPT !.windowOpen = e.windowOpen /\ ~e.closeRequested, !.closeRequested = FALSE]

(***************************************************************************)
(* moveStage                                                               *)
(***************************************************************************)
\* controller.RelativeMove(moveStep) in moveAndCheckReady
MoveStage_RelativeMove ==
    /\ task.pc = "move"
    /\ moveLog' = Append(moveLog, [ev |-> "RelativeMove", sub |-> task.sub,
                                   dist |-> TaskSubMoves[task.sub]])
    /\ task' = [task EXCEPT !.pc = "wait"]
    /\ UNCHANGED <<smc, reader, unitVars, args, loop, loopPc, env, exposed, hist, shutdownLog>>

\* where moveStage goes after a status query returned st, were an
\* exception to end the sub-move
AfterStatus_GiveUp(t, st, nSub) ==
    IF st.throws \/ IsReady(st)
    THEN IF t.sub < nSub THEN [t EXCEPT !.pc = "move", !.sub = t.sub + 1]
         ELSE [t EXCEPT !.pc = "done"]
    ELSE t

\* where moveStage goes after a status query returned st
AfterStatus_AnyStatus(t, st, nSub) ==
    IF st.throws THEN [t EXCEPT !.pc = "move", !.exc = t.exc + 1]
    ELSE IF t.sub < nSub THEN [t EXCEPT !.pc = "move", !.sub = t.sub + 1]
    ELSE [t EXCEPT !.pc = "done"]
AfterStatus(t, st, nSub) ==
    IF st.throws THEN [t EXCEPT !.pc = "move", !.exc = t.exc + 1]
    ELSE IF IsReady(st)
    THEN IF t.sub < nSub THEN [t EXCEPT !.pc = "move", !.sub = t.sub + 1]
         ELSE [t EXCEPT !.pc = "done"]
    ELSE t

\* one pass of the inner loop of moveAndCheckReady: a status query, whose
\* exception restarts the outer loop
MoveStage_CheckReady ==
    /\ task.pc = "wait"
    /\ \E r \in SerialReadResults :
          LET st == GetCurrentStatus(r) IN
          /\ st.throws => task.exc < MaxRetry
          /\ task' = AfterStatus(task, st, Len(TaskSubMoves))
          /\ moveLog' = IF IsReady(st)
                        THEN Append(moveLog, [ev |-> "Ready", sub |-> task.sub, dist |-> 0])
                        ELSE moveLog
    /\ UNCHANGED <<smc, reader, unitVars, args, loop, loopPc, env, exposed, hist, shutdownLog>>

(***************************************************************************)
(* Fragments RunFull and RunFullDynamic share word for word                *)
(***************************************************************************)
\* a clock that stands still
Tick_Stopped(n) == n

\* the time a frame takes, added to an elapsed time
Tick(n) == IF n < DarkCap THEN n + 1 ELSE DarkCap

\* what the read imagePaths[i] can do: inside the vector it reads the
\* element; at or beyond the end the behaviour is undefined, and the run
\* either ends there or goes on with a string that names no file
ReadOutcomes(paths, i) == IF i < Len(paths) THEN {"read"} ELSE {"crash", "garbage"}

\* the string the read imagePaths[i] gives when the run goes on
PathAt(paths, i) == IF i < Len(paths) THEN paths[i + 1] ELSE <<>>

\* whether loadFromFile(path) succeeds: the file exists and decodes
Decodes(path) == path # <<>> /\ path \notin args.undecodable

\* the outcomes of the read imagePaths[currentImageIndex] of the log
\* "Displaying: ...", which is written on the first frame of a light phase
LogReads(l) ==
    IF ~l.filenameLogged /\ l.inLightPhase
    THEN ReadOutcomes(l.imagePaths, l.currentImageIndex) ELSE {"read"}

\* the count of reads of imagePaths beyond its end, after one more read
BadReadsAfter(read) == IF read = "read" THEN hist.badReads ELSE hist.badReads + 1

\* textures[i].loadFromFile(path): decodes path into textures[i], or fails
\* and leaves the texture as it was
LoadFromFile(textures, i, path, ok) ==
    IF ok THEN [textures EXCEPT ![i + 1] = path] ELSE textures

\* the guard of the std::async launch
LaunchGuard_NoRunningTest(l) == ~l.nextImageLoaded
LaunchGuard(l) == ~l.isStageThreadRunning /\ ~l.nextImageLoaded

\* the guard of the preload of the next image
LoadGuard(l) == l.currentImageIndex + 1 < Len(l.imagePaths) /\ ~l.isNextImageLoading

\* the guard of "allImagesShown = true"
LastImageGuard(l) == l.currentImageIndex + 1 >= Len(l.imagePaths) /\ ~l.isNextImageLoading

\* isStageThreadRunning && stageThread.wait_for(0) == ready
PollGuard(l, t) == l.isStageThreadRunning /\ t.pc = "done"

\* the guard of the dark-to-light transition
\* the guard of the dark-to-light transition without the test of the timer
SwapGuard_NoTimerTest(l) == l.nextImageLoaded /\ ~l.isStageThreadRunning
SwapGuard_NoStageTest(l) == l.darkElapsed > l.darkDuration /\ l.nextImageLoaded
SwapGuard(l) == l.darkElapsed > l.darkDuration /\ l.nextImageLoaded /\ ~l.isStageThreadRunning

\* the guard of the "all images shown" exit
ExitGuard(l) == l.allImagesShown /\ ~l.displayImage

\* the locals after the dark frame was displayed, the task launched and the
\* next image loaded (ok: whether loadFromFile succeeded)
DarkFrameLocals(l, ok) ==
    LET l1 == [l EXCEPT !.darkElapsed = Tick(l.darkElapsed),
                        !.inLightPhase = TRUE,
                        !.isStageThreadRunning = l.isStageThreadRunning \/ LaunchGuard(l)]
    IN  IF LoadGuard(l1)
        THEN [l1 EXCEPT !.isNextImageLoading = TRUE,
                        !.textures = LoadFromFile(l1.textures, 1 - l1.currentTextureIndex,
                                                  l1.imagePaths[l1.currentImageIndex + 2], ok),
                        !.nextImageLoaded = TRUE]
        ELSE IF LastImageGuard(l1) THEN [l1 EXCEPT !.allImagesShown = TRUE]
        ELSE l1

\* the locals after the poll of the future
PolledLocals_NoReadyTest(l, t) == [l EXCEPT !.isStageThreadRunning = FALSE]
PolledLocals(l, t) ==
    IF PollGuard(l, t) THEN [l EXCEPT !.isStageThreadRunning = FALSE] ELSE l

\* the locals after the body of the dark-to-light transition
SwappedLocals(l) ==
    [l EXCEPT !.displayImage = TRUE, !.isNextImageLoading = FALSE,
              !.currentImageIndex = l.currentImageIndex + 1,
              !.currentTextureIndex = 1 - l.currentTextureIndex,
              !.nextImageLoaded = FALSE, !.filenameLogged = FALSE]

\* window.clear(); window.draw(sprite); window.display(); and the log of the
\* file name on the first frame of a light phase
ImageFrameLocals(l) ==
    IF ~l.filenameLogged /\ l.inLightPhase
    THEN [l EXCEPT !.filenameLogged = TRUE, !.inLightPhase = FALSE]
    ELSE l

\* the record of a completed light phase
Exposure(l, frames) ==
    [index |-> l.currentImageIndex, path |-> PathAt(l.imagePaths, l.currentImageIndex),
     texture |-> l.textures[l.currentTextureIndex + 1], frames |-> frames,
     current |-> env.current, exposureCount |-> l.maxImageDisplayCount,
     darkDuration |-> l.darkDuration, group |-> l.group]

\* the dark branch up to the poll of the future: blank frame, launch of
\* moveStage, preload of the next image
DarkFrame(nextPc) ==
    LET ok == Decodes(PathAt(loop.imagePaths, loop.currentImageIndex + 1)) IN
       /\ loop' = DarkFrameLocals(loop, ok)
       /\ task' = IF LaunchGuard(loop) THEN TaskLaunched ELSE task
       /\ moveLog' = IF LaunchGuard(loop) THEN <<>> ELSE moveLog
       /\ hist' = [hist EXCEPT
                     !.launches = IF LaunchGuard(loop) THEN @ + 1 ELSE @,
                     !.inFlight = IF LaunchGuard(loop) THEN @ + 1 ELSE @,
                     !.darkPhases = IF ~loop.inLightPhase THEN @ + 1 ELSE @]
       /\ loopPc' = nextPc

\* the rest of the dark branch: poll of the future, dark-to-light
\* transition, and the exit test that ends the iteration; next(l) is where
\* the loop goes when it does not exit, brk where it goes when it does
DarkPoll(swapped(_), next(_), brk(_)) ==
    LET l1 == PolledLocals(loop, task)
        l2 == IF SwapGuard(l1) THEN swapped(l1) ELSE l1
    IN  /\ task' = IF PollGuard(loop, task) THEN TaskIdle ELSE task
        /\ moveLog' = IF PollGuard(loop, task) THEN <<>> ELSE moveLog
        /\ hist' = [hist EXCEPT
                      !.inFlight = IF PollGuard(loop, task) THEN @ - 1 ELSE @,
                      !.exit = IF ExitGuard(l2) THEN "all images shown" ELSE @]
        /\ env' = IF ExitGuard(l2) THEN [env EXCEPT !.current = 0] ELSE env
        /\ loop' = IF ExitGuard(l2) THEN brk(l2).locals ELSE next(l2).locals
        /\ loopPc' = IF ExitGuard(l2) THEN brk(l2).pc ELSE next(l2).pc

\* controller.GetPosition() at the end of a light phase, the start of the
\* dark timer, and the exit test that ends the iteration
GetPositionAtBoundary(next(_), brk(_)) ==
    LET l1 == [loop EXCEPT !.darkElapsed = 0] IN
    /\ hist' = [hist EXCEPT !.exit = IF ExitGuard(l1) THEN "all images shown" ELSE @]
    /\ env' = IF ExitGuard(l1) THEN [env EXCEPT !.current = 0] ELSE env
    /\ loop' = IF ExitGuard(l1) THEN brk(l1).locals ELSE next(l1).locals
    /\ loopPc' = IF ExitGuard(l1) THEN brk(l1).pc ELSE next(l1).pc

(***************************************************************************)
(* RunFull                                                                 *)
(***************************************************************************)
\* the try block around fs::directory_iterator, with no error ever thrown
Enumerated_Always == TRUE

\* the try block around fs::directory_iterator(directoryPath) ended
\* without a std::filesystem::filesystem_error
Enumerated == args.dirReadable

\* from the entry of the function to the first test of the while loop
Setup(mode, whilePc) ==
    /\ loopPc = "start"
    /\ args.mode = mode
    /\ IF ~Enumerated
       THEN /\ loopPc' = "returned"
            /\ hist' = [hist EXCEPT !.exit = "filesystem error"]
            /\ UNCHANGED <<loop, env>>
       ELSE LET paths == SortPaths(args.directory) IN
            \E initialised \in BOOLEAN, read \in ReadOutcomes(paths, 0) :
            IF read = "crash"
            THEN /\ loopPc' = "crashed"
                 /\ hist' = [hist EXCEPT !.exit = "crash", !.badReads = BadReadsAfter(read)]
                 /\ UNCHANGED <<loop, env>>
            ELSE /\ loop' = [loop EXCEPT
                               !.imagePaths = paths,
                               !.textures = LoadFromFile(loop.textures, 0, PathAt(paths, 0),
                                                         Decodes(PathAt(paths, 0))),
                               !.maxImageDisplayCount = args.maxImageDisplayCount,
                               !.darkDuration = args.mindarktime]
                 /\ env' = [env EXCEPT !.portOpen = initialised]
                 /\ loopPc' = IF initialised THEN whilePc ELSE "exited"
                 /\ hist' = [hist EXCEPT !.exit = IF initialised THEN @ ELSE "exit(0)",
                                         !.badReads = BadReadsAfter(read)]
    /\ UNCHANGED <<smc, reader, unitVars, args, task, exposed, moveLog, shutdownLog>>

RunFull_Setup == Setup("static", "while")

\* while (window.isOpen()) found the window closed
RunFull_WindowClosed ==
    /\ loopPc = "while"
    /\ ~env.windowOpen
    /\ loopPc' = "join"
    /\ hist' = [hist EXCEPT !.exit = "window closed"]
    /\ UNCHANGED <<smc, reader, unitVars, args, loop, env, task, exposed, moveLog, shutdownLog>>

\* the exposure count of the light phase in progress
MaxCountOf(l) == IF l.inInitialPhase THEN args.initialExposureCounter ELSE l.maxImageDisplayCount

\* an iteration with displayImage set
RunFull_LightTick ==
    /\ loopPc = "while"
    /\ env.windowOpen
    /\ loop.displayImage
    /\ IF AbortObserved(env)
       THEN /\ loopPc' = "aborted"
            /\ env' = PollEvents(env)
            /\ hist' = [hist EXCEPT !.exit = "abort"]
            /\ UNCHANGED <<loop, exposed>>
       ELSE \E read \in LogReads(loop) :
            LET l1 == ImageFrameLocals(loop)
                count == l1.imageDisplayCount + 1
            IN  /\ env' = [PollEvents(env) EXCEPT !.screen = "image"]
                /\ IF read = "crash"
                   THEN /\ loopPc' = "crashed"
                        /\ hist' = [hist EXCEPT !.imageFrames = @ + 1, !.exit = "crash",
                                                !.badReads = BadReadsAfter(read)]
                        /\ UNCHANGED <<loop, exposed>>
                   ELSE IF count >= MaxCountOf(l1)
                   THEN /\ loop' = [l1 EXCEPT
                                      !.displayImage = FALSE, !.imageDisplayCount = 0,
                                      !.currentLayer = l1.currentLayer + 1,
                                      !.inInitialPhase =
                                          l1.inInitialPhase
                                          /\ ~(l1.currentLayer + 1 >= args.initialLayers)]
                        /\ exposed' = Append(exposed, Exposure(l1, hist.phaseFrames + 1))
                        /\ hist' = [hist EXCEPT !.imageFrames = @ + 1, !.phaseFrames = 0,
                                                !.badReads = BadReadsAfter(read)]
                        /\ loopPc' = "getpos"
                   ELSE /\ loop' = [l1 EXCEPT !.imageDisplayCount = count]
                        /\ hist' = [hist EXCEPT !.imageFrames = @ + 1, !.phaseFrames = @ + 1,
                                                !.badReads = BadReadsAfter(read)]
                        /\ loopPc' = "while"
                        /\ UNCHANGED exposed
    /\ UNCHANGED <<smc, reader, unitVars, args, task, moveLog, shutdownLog>>

\* where RunFull goes at the end of an iteration
RunFull_Continue(l) == [locals |-> l, pc |-> "while"]
RunFull_Break(l) == [locals |-> l, pc |-> "join"]

RunFull_GetPosition ==
    /\ loopPc = "getpos"
    /\ GetPositionAtBoundary(RunFull_Continue, RunFull_Break)
    /\ UNCHANGED <<smc, reader, unitVars, args, task, exposed, moveLog, shutdownLog>>

\* an iteration with displayImage clear that reads the abort flag first and
\* drops the task in flight
RunFull_DarkTick_AbortRead ==
    /\ loopPc = "while"
    /\ env.windowOpen
    /\ ~loop.displayImage
    /\ IF env.abortFlag
       THEN /\ loopPc' = "aborted"
            /\ env' = PollEvents(env)
            /\ hist' = [hist EXCEPT !.exit = "abort", !.inFlight = 0]
            /\ task' = TaskIdle
            /\ UNCHANGED <<loop, moveLog>>
       ELSE /\ env' = [PollEvents(env) EXCEPT !.screen = "blank"]
            /\ DarkFrame("darkpoll")
    /\ UNCHANGED <<smc, reader, unitVars, args, exposed, shutdownLog>>

\* an iteration with displayImage clear, up to the poll of the future
RunFull_DarkTick ==
    /\ loopPc = "while"
    /\ env.windowOpen
    /\ ~loop.displayImage
    /\ env' = [PollEvents(env) EXCEPT !.screen = "blank"]
    /\ DarkFrame("darkpoll")
    /\ UNCHANGED <<smc, reader, unitVars, args, exposed, shutdownLog>>

\* the rest of that iteration
RunFull_DarkPoll ==
    /\ loopPc = "darkpoll"
    /\ DarkPoll(SwappedLocals, RunFull_Continue, RunFull_Break)
    /\ UNCHANGED <<smc, reader, unitVars, args, exposed, shutdownLog>>

(***************************************************************************)
(* RunFullDynamic                                                          *)
(***************************************************************************)
RunFullDynamic_Setup == Setup("dynamic", "dynwhile")

\* the only test of window.isOpen() and the only poll of the events
RunFullDynamic_While ==
    /\ loopPc = "dynwhile"
    /\ IF ~env.windowOpen
       THEN /\ loopPc' = "join"
            /\ hist' = [hist EXCEPT !.exit = "window closed"]
            /\ UNCHANGED <<loop, env>>
       ELSE /\ loopPc' = "for"
            /\ loop' = [loop EXCEPT !.group = 1]
            /\ env' = PollEvents(env)
            /\ UNCHANGED hist
    /\ UNCHANGED <<smc, reader, unitVars, args, task, exposed, moveLog, shutdownLog>>

\* the head of "for (setting : orderedSettings)": the break after the last
\* group, or the application of the next group's settings
RunFullDynamic_ApplySettings ==
    /\ loopPc = "for"
    /\ IF loop.group > Len(args.orderedSettings)
       THEN /\ loopPc' = "join"
            /\ hist' = [hist EXCEPT !.exit = IF @ = "none" THEN "settings exhausted" ELSE @]
            /\ UNCHANGED <<loop, env>>
       ELSE LET currentSetting == args.orderedSettings[loop.group][1] IN
            /\ loop' = [loop EXCEPT !.maxImageDisplayCount = currentSetting.exposureTime,
                                    !.darkDuration = currentSetting.darkTime,
                                    !.darkElapsed = DarkCap,
                                    !.layercounter = 0]
            /\ env' = [env EXCEPT !.current = currentSetting.intensity]
            /\ loopPc' = "inner"
            /\ UNCHANGED hist
    /\ UNCHANGED <<smc, reader, unitVars, args, task, exposed, moveLog, shutdownLog>>

\* while (layercounter <= layerCount), tested after an iteration
RunFullDynamic_Continue(l) ==
    IF l.layercounter <= args.orderedSettings[l.group][2]
    THEN [locals |-> l, pc |-> "inner"]
    ELSE [locals |-> [l EXCEPT !.group = l.group + 1], pc |-> "for"]

\* the break of the inner loop
RunFullDynamic_Break(l) == [locals |-> [l EXCEPT !.group = l.group + 1], pc |-> "for"]

\* an iteration of the inner loop with displayImage set
RunFullDynamic_LightTick ==
    /\ loopPc = "inner"
    /\ loop.displayImage
    /\ IF AbortObserved(env)
       THEN /\ loopPc' = "aborted"
            /\ hist' = [hist EXCEPT !.exit = "abort"]
            /\ UNCHANGED <<loop, exposed, env>>
       ELSE \E read \in LogReads(loop) :
            LET l1 == ImageFrameLocals(loop)
                count == l1.imageDisplayCount + 1
            IN  /\ env' = [env EXCEPT !.screen = "image"]
                /\ IF read = "crash"
                   THEN /\ loopPc' = "crashed"
                        /\ hist' = [hist EXCEPT !.imageFrames = @ + 1, !.exit = "crash",
                                                !.badReads = BadReadsAfter(read)]
                        /\ UNCHANGED <<loop, exposed>>
                   ELSE IF count >= l1.maxImageDisplayCount
                   THEN /\ loop' = [l1 EXCEPT
                                      !.displayImage = FALSE, !.imageDisplayCount = 0,
                                      !.currentLayer = l1.currentLayer + 1]
                        /\ exposed' = Append(exposed, Exposure(l1, hist.phaseFrames + 1))
                        /\ hist' = [hist EXCEPT !.imageFrames = @ + 1, !.phaseFrames = 0,
                                                !.badReads = BadReadsAfter(read)]
                        /\ loopPc' = "dyngetpos"
                   ELSE /\ loop' = [l1 EXCEPT !.imageDisplayCount = count]
                        /\ hist' = [hist EXCEPT !.imageFrames = @ + 1, !.phaseFrames = @ + 1,
                                                !.badReads = BadReadsAfter(read)]
                        /\ loopPc' = "inner"
                        /\ UNCHANGED exposed
    /\ UNCHANGED <<smc, reader, unitVars, args, task, moveLog, shutdownLog>>

RunFullDynamic_GetPosition ==
    /\ loopPc = "dyngetpos"
    /\ GetPositionAtBoundary(RunFullDynamic_Continue, RunFullDynamic_Break)
    /\ UNCHANGED <<smc, reader, unitVars, args, task, exposed, moveLog, shutdownLog>>

\* an iteration of the inner loop with displayImage clear, up to the poll
RunFullDynamic_DarkTick ==
    /\ loopPc = "inner"
    /\ ~loop.displayImage
    /\ env' = [env EXCEPT !.screen = "blank"]
    /\ DarkFrame("dyndarkpoll")
    /\ UNCHANGED <<smc, reader, unitVars, args, exposed, shutdownLog>>

\* the dark-to-light transition of RunFullDynamic also counts the layer
RunFullDynamic_SwappedLocals(l) ==
    [SwappedLocals(l) EXCEPT !.layercounter = l.layercounter + 1]

\* the rest of that iteration
RunFullDynamic_DarkPoll ==
    /\ loopPc = "dyndarkpoll"
    /\ DarkPoll(RunFullDynamic_SwappedLocals, RunFullDynamic_Continue, RunFullDynamic_Break)
    /\ UNCHANGED <<smc, reader, unitVars, args, exposed, shutdownLog>>

(***************************************************************************)
(* After the loop (the same statements in both functions)                  *)
(***************************************************************************)
\* the test "if (isStageThreadRunning)" that guards stageThread.get()
MustJoin_Never(l) == FALSE
MustJoin(l) == l.isStageThreadRunning

\* if (isStageThreadRunning) stageThread.get();  -- blocks until the task ends
Shutdown_Join ==
    /\ loopPc = "join"
    /\ MustJoin(loop) => task.pc = "done"
    /\ task' = IF MustJoin(loop) THEN TaskIdle ELSE task
    /\ moveLog' = IF MustJoin(loop) THEN <<>> ELSE moveLog
    /\ hist' = [hist EXCEPT !.inFlight = IF MustJoin(loop) THEN @ - 1 ELSE @]
    /\ shutdownLog' = Append(shutdownLog, "join")
    /\ loopPc' = "finalpos"
    /\ UNCHANGED <<smc, reader, unitVars, args, loop, env, exposed>>

\* position = controller.GetPosition(); logged as the final position
Shutdown_GetPosition ==
    /\ loopPc = "finalpos"
    /\ shutdownLog' = Append(shutdownLog, "GetPosition")
    /\ loopPc' = "home"
    /\ UNCHANGED <<smc, reader, unitVars, args, loop, env, task, exposed, hist, moveLog>>

\* controller.Home()
Shutdown_Home ==
    /\ loopPc = "home"
    /\ shutdownLog' = Append(shutdownLog, "Home")
    /\ loopPc' = "close"
    /\ UNCHANGED <<smc, reader, unitVars, args, loop, env, task, exposed, hist, moveLog>>

\* controller.SMC100CClose()
Shutdown_Close ==
    /\ loopPc = "close"
    /\ env' = [env EXCEPT !.portOpen = FALSE]
    /\ shutdownLog' = Append(shutdownLog, "SMC100CClose")
    /\ loopPc' = "winclose"
    /\ UNCHANGED <<smc, reader, unitVars, args, loop, task, exposed, hist, moveLog>>

\* window.close(); return
Shutdown_WindowClose ==
    /\ loopPc = "winclose"
    /\ env' = [env EXCEPT !.windowOpen = FALSE]
    /\ shutdownLog' = Append(shutdownLog, "window.close")
    /\ loopPc' = "returned"
    /\ UNCHANGED <<smc, reader, unitVars, args, loop, task, exposed, hist, moveLog>>

Next ==
    \/ SetAbortFlag
    \/ CloseEvent
    \/ MoveStage_RelativeMove
    \/ MoveStage_CheckReady
    \/ RunFull_Setup
    \/ RunFull_WindowClosed
    \/ RunFull_LightTick
    \/ RunFull_GetPosition
    \/ RunFull_DarkTick
    \/ RunFull_DarkPoll
    \/ RunFullDynamic_Setup
    \/ RunFullDynamic_While
    \/ RunFullDynamic_ApplySettings
    \/ RunFullDynamic_LightTick
    \/ RunFullDynamic_GetPosition
    \/ RunFullDynamic_DarkTick
    \/ RunFullDynamic_DarkPoll
    \/ Shutdown_Join
    \/ Shutdown_GetPosition
    \/ Shutdown_Home
    \/ Shutdown_Close
    \/ Shutdown_WindowClose

Spec == Init /\ [][Next]_vars

(***************************************************************************)
(* Properties                                                              *)
(***************************************************************************)
InLoop == loopPc \in {"while", "getpos", "darkpoll", "for", "inner", "dyngetpos", "dyndarkpoll"}

\* the loop presents, or is about to present, an image frame, or is at the
\* position query that ends a light phase
LightPhase == InLoop /\ (loop.displayImage \/ loopPc \in {"getpos", "dyngetpos"})

TaskInFlight == task.pc # "idle"

\* C1: in every state in which the loop of RunFull or RunFullDynamic is in
\* the light phase no moveStage task is in flight: the dark-to-light
\* transition is taken only after the launched task was seen complete.
C1_NoMoveInLightPhase == LightPhase => (~TaskInFlight /\ ~loop.isStageThreadRunning)

\* a light phase that follows a completed stage move
C1_Witness == LightPhase /\ loopPc \in {"while", "inner"} /\ hist.launches >= 1

\* C2: at most one moveStage task is in flight at any time; a task is
\* launched only when the previous one was seen complete.
C2_OneMoveInFlight ==
    /\ hist.inFlight <= 1
    /\ hist.inFlight = (IF TaskInFlight THEN 1 ELSE 0)

\* a second task is in flight
C2_Witness == hist.launches >= 2 /\ TaskInFlight

\* C3: in RunFull the light phase of layer k (1-based) presents the image
\* for exactly initialExposureCounter frames when k <= initialLayers and for
\* exactly maxImageDisplayCount frames when k > initialLayers.
C3_ExposureCounts ==
    args.mode = "static" =>
        \A k \in 1 .. Len(exposed) :
            exposed[k].frames = IF k <= args.initialLayers
                                THEN args.initialExposureCounter
                                ELSE args.maxImageDisplayCount

\* the same with initialLayers >= 1 (what RunFull does)
C3_ExposureCountsFromOneInitialLayer == args.initialLayers >= 1 => C3_ExposureCounts

\* the number in the name of an image file
LayerNumber(path) == stoi(Capture(path))

\* C4: a RunFull run over N >= 1 images that ends with "all images shown"
\* has exposed the images in sorted order, each in exactly one light phase,
\* and has gone through exactly N light/dark cycles; the image index never
\* skips or repeats an image.
C4_EveryImageOnceInOrder ==
    (args.mode = "static" /\ loopPc # "start" /\ args.dirReadable) =>
        /\ Len(loop.imagePaths) = Len(args.directory)
        /\ {loop.imagePaths[k] : k \in 1 .. Len(loop.imagePaths)}
              = {args.directory[k] : k \in 1 .. Len(args.directory)}
        /\ Len(exposed) <= Len(loop.imagePaths)
        /\ \A k \in 1 .. Len(exposed) :
              /\ exposed[k].index = k - 1
              /\ exposed[k].path = loop.imagePaths[k]
              /\ k > 1 => LayerNumber(exposed[k - 1].path) < LayerNumber(exposed[k].path)
        /\ hist.exit = "all images shown" =>
              /\ Len(exposed) = Len(loop.imagePaths)
              /\ hist.darkPhases = Len(loop.imagePaths)

\* a run over the largest directory has returned after "all images shown"
C4_Witness ==
    /\ args.mode = "static"
    /\ loopPc = "returned"
    /\ hist.exit = "all images shown"
    /\ Len(loop.imagePaths) = MaxImages
    /\ ~env.abortFlag

RECURSIVE SumCounts(_)
SumCounts(table) == IF table = <<>> THEN 0 ELSE table[1][2] + SumCounts(Tail(table))

\* the completed light phases of settings group i
LayersOfGroup(i) == {k \in 1 .. Len(exposed) : exposed[k].group = i}

\* C5: in RunFullDynamic with at least c1+...+cm images, exactly ci
\* consecutive layers are exposed with group i's intensity, exposure count
\* and dark time before the settings of group i+1 take effect.
C5_GroupLayerCounts ==
    (args.mode = "dynamic" /\ Len(args.directory) >= SumCounts(args.orderedSettings)) =>
        \A i \in 1 .. Len(args.orderedSettings) :
            /\ \A k \in LayersOfGroup(i) :
                  /\ exposed[k].current = args.orderedSettings[i][1].intensity
                  /\ exposed[k].frames = args.orderedSettings[i][1].exposureTime
                  /\ exposed[k].darkDuration = args.orderedSettings[i][1].darkTime
            /\ Cardinality(LayersOfGroup(i)) <= args.orderedSettings[i][2]
            /\ loop.group > i => Cardinality(LayersOfGroup(i)) = args.orderedSettings[i][2]

\* the loop is at the top of an iteration that takes the light branch
AtLightIteration ==
    \/ loopPc = "while" /\ env.windowOpen /\ loop.displayImage
    \/ loopPc = "inner" /\ loop.displayImage

\* C6: when the abort flag is seen at the top of a light-phase iteration the
\* run is aborted at once: that iteration and everything after it launch no
\* moveStage task and present no image frame.
C6_AbortStopsTheRun ==
    [][ /\ (AtLightIteration /\ env.abortFlag /\ <<loop, loopPc>>' # <<loop, loopPc>>)
            => /\ loopPc' = "aborted"
               /\ hist'.launches = hist.launches
               /\ hist'.imageFrames = hist.imageFrames
               /\ task' = task
        /\ loopPc = "aborted"
            => /\ loopPc' = "aborted"
               /\ hist'.launches = hist.launches
               /\ hist'.imageFrames = hist.imageFrames
               /\ ~TaskInFlight' ]_vars

\* a run aborted after its first layer
C6_Witness == loopPc = "aborted" /\ Len(exposed) >= 1 /\ hist.launches >= 1

ShutdownSequence == <<"join", "GetPosition", "Home", "SMC100CClose", "window.close">>

\* C7: every run that ends after the controller was initialised (all images
\* shown, window closed, abort) has waited for the stage move in flight,
\* queried the final position, commanded Home, closed the stage connection
\* and closed the window, in this order.
C7_ShutdownOnEveryEnd ==
    (loopPc \in {"returned", "aborted"} /\ hist.exit # "filesystem error")
        => shutdownLog = ShutdownSequence

\* the same for the runs that leave the loop (what the code does)
C7_ShutdownAfterTheLoop ==
    /\ (loopPc = "returned" /\ hist.exit # "filesystem error") => shutdownLog = ShutdownSequence
    /\ loopPc = "aborted" => shutdownLog = <<>>

\* the statements of the loop of RunFull / RunFullDynamic
LoopNext ==
    \/ RunFull_WindowClosed
    \/ RunFull_LightTick
    \/ RunFull_GetPosition
    \/ RunFull_DarkTick
    \/ RunFull_DarkPoll
    \/ RunFullDynamic_ApplySettings
    \/ RunFullDynamic_LightTick
    \/ RunFullDynamic_GetPosition
    \/ RunFullDynamic_DarkTick
    \/ RunFullDynamic_DarkPoll

\* C8: the final position query, Home and the close of the stage connection
\* never happen while a moveStage task is in flight: the shutdown first
\* waits for the task; inside the loop the task never blocks the loop.
C8_ShutdownWaitsForMove ==
    /\ loopPc \in {"finalpos", "home", "close", "winclose", "returned"} => ~TaskInFlight
    /\ (~env.portOpen /\ loopPc \notin {"start", "exited"}) => ~TaskInFlight
    /\ (InLoop /\ TaskInFlight) => ENABLED LoopNext

\* the shutdown has waited for a task that was in flight when the loop ended
C8_Witness == loopPc = "finalpos" /\ loop.isStageThreadRunning /\ hist.launches >= 1

\* what moveStage is to send, in order
ExpectedMoves ==
    IF args.isClip THEN <<args.stepSize>>
    ELSE <<-args.dlpPumpingAction, args.stepSize, args.dlpPumpingAction>>

\* C9: one moveStage call issues the sub-moves pump-up (-pumpDistance), step
\* (stepSize), pump-down (+pumpDistance) in this order (only the step in
\* clip mode): a RelativeMove of sub-move i > 1 is first sent only after
\* "Ready" was seen after sub-move i - 1, and the call ends only after
\* "Ready" was seen after the last one. A RelativeMove that follows a
\* RelativeMove is the retry of the same sub-move after an exception; how
\* often one sub-move is sent is not stated here.
C9_SubMovesInOrder ==
    /\ \A j \in 1 .. Len(moveLog) :
          LET e == moveLog[j] IN
          /\ e.sub \in 1 .. Len(ExpectedMoves)
          /\ e.ev = "RelativeMove" =>
                /\ e.dist = ExpectedMoves[e.sub]
                /\ j = 1 => e.sub = 1
                /\ j > 1 =>
                      \/ moveLog[j - 1].ev = "RelativeMove" /\ moveLog[j - 1].sub = e.sub
                      \/ moveLog[j - 1].ev = "Ready" /\ moveLog[j - 1].sub = e.sub - 1
          /\ e.ev = "Ready" =>
                j > 1 /\ moveLog[j - 1].ev = "RelativeMove" /\ moveLog[j - 1].sub = e.sub
    /\ task.pc = "done" =>
          /\ moveLog # <<>>
          /\ moveLog[Len(moveLog)].ev = "Ready"
          /\ moveLog[Len(moveLog)].sub = Len(ExpectedMoves)
    /\ task.pc \in {"move", "wait"} => task.sub \in 1 .. Len(ExpectedMoves)

\* a call with the pumping action has ended after a retried sub-move
C9_Witness ==
    /\ task.pc = "done"
    /\ ~args.isClip
    /\ Len(moveLog) = 7
    /\ \E j \in 1 .. 6 : moveLog[j].ev = "RelativeMove" /\ moveLog[j + 1].ev = "RelativeMove"

\* the loop is at a call of the controller
LoopAtController == loopPc \in {"getpos", "dyngetpos", "finalpos", "home", "close"}

\* C10: the loop and the moveStage task never use the controller at
\* overlapping times: between the launch of a task and the observation of
\* its completion the loop is at no controller call, and the position query
\* at the end of a light phase is over before the task is launched.
C10_NoOverlappingControllerAccess ==
    /\ LoopAtController => (~TaskInFlight /\ hist.inFlight = 0)
    /\ TaskInFlight => (env.portOpen /\ loopPc \in {"while", "darkpoll", "for", "inner", "dyndarkpoll", "join"})

\* the position query at the end of a light phase that follows a stage move
C10_Witness == loopPc \in {"getpos", "dyngetpos"} /\ hist.launches >= 1 /\ Len(exposed) >= 2

\* a step that takes the dark-to-light transition
SwapStep == loop'.currentImageIndex # loop.currentImageIndex

\* C11: the buffer swap that starts a light phase is taken only when more
\* than the dark time has passed since the dark timer was started at the end
\* of the previous light phase, and when the preload of the next image has
\* been done; the swap advances the image index by one and flips the buffer.
C11_SwapAfterDarkTime ==
    [][ SwapStep =>
          /\ loop.darkElapsed > loop.darkDuration
          /\ loop.nextImageLoaded
          /\ loop'.currentImageIndex = loop.currentImageIndex + 1
          /\ loop'.currentTextureIndex = 1 - loop.currentTextureIndex
          /\ ~loop.displayImage /\ loop'.displayImage ]_vars

\* a light phase that began after a dark phase with a dark time above zero
C11_Witness ==
    /\ loopPc \in {"while", "inner", "for"}
    /\ loop.displayImage
    /\ loop.currentImageIndex >= 1
    /\ loop.darkDuration >= 1
    /\ loop.imageDisplayCount = 0

(***************************************************************************)
(* SMC100C driver: commands                                                *)
(***************************************************************************)
\* enum class CommandType, in the order of its declaration
CommandType ==
    << "None", "Acceleration", "BacklashComp", "HysterisisComp",
       "DriverVoltage", "KdLowPassFilterCutOff", "FollowingErrorLim", "FrictionComp",
       "HomeSearchType", "StageIdentifier", "LeaveJoggingState", "KeypadEnable",
       "JerkTime", "DerivativeGain", "IntegralGain", "ProportionalGain",
       "VelocityFeedForward", "Enable", "HomeSearchVelocity", "HomeSearch",
       "HomeSearchTimeout", "MoveAbs", "MoveRel", "MoveEstimate",
       "Configure", "Analog", "TTLInputVal", "Reset",
       "RS485Adress", "TTLOutputVal", "ControlLoopState", "NegativeSoftwareLim",
       "PositiveSoftwareLim", "StopMotion", "EncoderIncrementVal", "CommandErrorString",
       "LastCommandErr", "PositionAsSet", "PositionReal", "ErrorStatus",
       "Velocity", "BaseVelocity", "ControllerRevisionInfo", "AllConfigParam",
       "ESPStageConfig" >>

\* the enum values counted from the last enumerator
EnumValue_Reversed(type) ==
    Len(CommandType) - (CHOOSE i \in 1 .. Len(CommandType) : CommandType[i] = type)

\* the enum value of a command type: static_cast<int>(Type)
EnumValue(type) == (CHOOSE i \in 1 .. Len(CommandType) : CommandType[i] = type) - 1

\* SMC100C::CommandLibrary[]
CommandLibrary ==
    << [Command |-> "None", CommandChar |-> Str(<<" "," ">>), SendType |-> "None", GetSetType |-> "None"],
       [Command |-> "Acceleration", CommandChar |-> Str(<<"A","C">>), SendType |-> "Float", GetSetType |-> "GetSet"],
       [Command |-> "BacklashComp", CommandChar |-> Str(<<"B","A">>), SendType |-> "Float", GetSetType |-> "GetSet"],
       [Command |-> "HysterisisComp", CommandChar |-> Str(<<"B","H">>), SendType |-> "Float", GetSetType |-> "GetSet"],
       [Command |-> "DriverVoltage", CommandChar |-> Str(<<"D","V">>), SendType |-> "Float", GetSetType |-> "GetSet"],
       [Command |-> "KdLowPassFilterCutOff", CommandChar |-> Str(<<"F","D">>), SendType |-> "Float", GetSetType |-> "GetSet"],
       [Command |-> "FollowingErrorLim", CommandChar |-> Str(<<"F","E">>), SendType |-> "Float", GetSetType |-> "GetSet"],
       [Command |-> "FrictionComp", CommandChar |-> Str(<<"F","F">>), SendType |-> "Float", GetSetType |-> "GetSet"],
       [Command |-> "HomeSearchType", CommandChar |-> Str(<<"H","T">>), SendType |-> "Int", GetSetType |-> "GetSet"],
       [Command |-> "StageIdentifier", CommandChar |-> Str(<<"I","D">>), SendType |-> "Float", GetSetType |-> "GetSet"],
       [Command |-> "LeaveJoggingState", CommandChar |-> Str(<<"J","D">>), SendType |-> "None", GetSetType |-> "None"],
       [Command |-> "KeypadEnable", CommandChar |-> Str(<<"J","M">>), SendType |-> "Int", GetSetType |-> "GetSet"],
       [Command |-> "JerkTime", CommandChar |-> Str(<<"J","R">>), SendType |-> "Float", GetSetType |-> "GetSet"],
       [Command |-> "DerivativeGain", CommandChar |-> Str(<<"K","D">>), SendType |-> "Float", GetSetType |-> "GetSet"],
       [Command |-> "IntegralGain", CommandChar |-> Str(<<"K","I">>), SendType |-> "Float", GetSetType |-> "GetSet"],
       [Command |-> "ProportionalGain", CommandChar |-> Str(<<"K","P">>), SendType |-> "Float", GetSetType |-> "GetSet"],
       [Command |-> "VelocityFeedForward", CommandChar |-> Str(<<"K","V">>), SendType |-> "Float", GetSetType |-> "GetSet"],
       [Command |-> "Enable", CommandChar |-> Str(<<"M","M">>), SendType |-> "Int", GetSetType |-> "None"],
       [Command |-> "HomeSearchVelocity", CommandChar |-> Str(<<"O","H">>), SendType |-> "Float", GetSetType |-> "GetSet"],
       [Command |-> "HomeSearch", CommandChar |-> Str(<<"O","R">>), SendType |-> "None", GetSetType |-> "None"],
       [Command |-> "HomeSearchTimeout", CommandChar |-> Str(<<"O","T">>), SendType |-> "Float", GetSetType |-> "GetSet"],
       [Command |-> "MoveAbs", CommandChar |-> Str(<<"P","A">>), SendType |-> "Float", GetSetType |-> "GetSet"],
       [Command |-> "MoveRel", CommandChar |-> Str(<<"P","R">>), SendType |-> "Float", GetSetType |-> "GetSet"],
       [Command |-> "MoveEstimate", CommandChar |-> Str(<<"P","T">>), SendType |-> "Float", GetSetType |-> "GetAlways"],
       [Command |-> "Configure", CommandChar |-> Str(<<"P","W">>), SendType |-> "Int", GetSetType |-> "GetSet"],
       [Command |-> "Analog", CommandChar |-> Str(<<"R","A">>), SendType |-> "None", GetSetType |-> "GetAlways"],
       [Command |-> "TTLInputVal", CommandChar |-> Str(<<"R","B">>), SendType |-> "None", GetSetType |-> "GetAlways"],
       [Command |-> "Reset", CommandChar |-> Str(<<"R","S">>), SendType |-> "None", GetSetType |-> "None"],
       [Command |-> "RS485Adress", CommandChar |-> Str(<<"S","A">>), SendType |-> "Int", GetSetType |-> "GetSet"],
       [Command |-> "TTLOutputVal", CommandChar |-> Str(<<"S","B">>), SendType |-> "Int", GetSetType |-> "GetSet"],
       [Command |-> "ControlLoopState", CommandChar |-> Str(<<"S","C">>), SendType |-> "Int", GetSetType |-> "GetSet"],
       [Command |-> "NegativeSoftwareLim", CommandChar |-> Str(<<"S","L">>), SendType |-> "Float", GetSetType |-> "GetSet"],
       [Command |-> "PositiveSoftwareLim", CommandChar |-> Str(<<"S","R">>), SendType |-> "Float", GetSetType |-> "GetSet"],
       [Command |-> "StopMotion", CommandChar |-> Str(<<"S","T">>), SendType |-> "None", GetSetType |-> "None"],
       [Command |-> "EncoderIncrementVal", CommandChar |-> Str(<<"S","U">>), SendType |-> "Float", GetSetType |-> "GetSet"],
       [Command |-> "CommandErrorString", CommandChar |-> Str(<<"T","B">>), SendType |-> "None", GetSetType |-> "GetAlways"],
       [Command |-> "LastCommandErr", CommandChar |-> Str(<<"T","E">>), SendType |-> "None", GetSetType |-> "GetAlways"],
       [Command |-> "PositionAsSet", CommandChar |-> Str(<<"T","H">>), SendType |-> "None", GetSetType |-> "GetAlways"],
       [Command |-> "PositionReal", CommandChar |-> Str(<<"T","P">>), SendType |-> "None", GetSetType |-> "GetAlways"],
       [Command |-> "ErrorStatus", CommandChar |-> Str(<<"T","S">>), SendType |-> "None", GetSetType |-> "GetAlways"],
       [Command |-> "Velocity", CommandChar |-> Str(<<"V","A">>), SendType |-> "Float", GetSetType |-> "GetSet"],
       [Command |-> "BaseVelocity", CommandChar |-> Str(<<"V","b">>), SendType |-> "Float", GetSetType |-> "GetSet"],
       [Command |-> "ControllerRevisionInfo", CommandChar |-> Str(<<"V","E">>), SendType |-> "None", GetSetType |-> "GetAlways"],
       [Command |-> "AllConfigParam", CommandChar |-> Str(<<"Z","T">>), SendType |-> "None", GetSetType |-> "GetAlways"],
       [Command |-> "ESPStageConfig", CommandChar |-> Str(<<"Z","X">>), SendType |-> "None", GetSetType |-> "GetSet"] >>

\* enum class CommandGetSetType
CommandGetSetType == {"None", "Get", "Set", "GetSet", "GetAlways"}

\* float parameters, counted in halves: -1.5, 0.0, 0.5, 2.0
Parameters == {-3, 0, 1, 4}

\* the run is not used while the driver or the reader is exercised alone
NoRun ==
    /\ args = [mode |-> "none"]
    /\ loop = LoopLocals
    /\ loopPc = "returned"
    /\ env = [windowOpen |-> FALSE, closeRequested |-> FALSE, abortFlag |-> FALSE,
              current |-> 0, screen |-> "none", portOpen |-> TRUE]
    /\ task = TaskIdle
    /\ exposed = <<>>
    /\ hist = [imageFrames |-> 0, phaseFrames |-> 0, launches |-> 0, inFlight |-> 0,
               darkPhases |-> 0, badReads |-> 0, exit |-> "none"]
    /\ moveLog = <<>>
    /\ shutdownLog = <<>>

Abs(n) == IF n < 0 THEN -n ELSE n

\* std::to_string(int)
IntToString(n) == (IF n < 0 THEN Str(<<"-">>) ELSE <<>>) \o DecimalDigits(Abs(n))

\* static_cast<int>(float) of h halves: truncation toward zero
TruncateToInt(h) == IF h < 0 THEN -(Abs(h) \div 2) ELSE h \div 2

\* std::to_string(float) of h halves: "%f", six decimals
FloatToString(h) ==
    (IF h < 0 THEN Str(<<"-">>) ELSE <<>>)
    \o DecimalDigits(Abs(h) \div 2)
    \o Str(<<".">>)
    \o (IF Abs(h) % 2 = 1 THEN Str(<<"5","0","0","0","0","0">>)
        ELSE Str(<<"0","0","0","0","0","0">>))

\* static const char* ControllerAdress = "1"
ControllerAdress == Str(<<"1">>)

\* paramString of SendCurrentCommand
ParamString(entry) ==
    IF CommandLibrary[entry.Command + 1].SendType = "Int"
    THEN IntToString(TruncateToInt(entry.Parameter))
    ELSE IF CommandLibrary[entry.Command + 1].SendType = "Float"
    THEN FloatToString(entry.Parameter)
    ELSE <<>>

\* what SendCurrentCommand writes after the address and the command
\* characters, with the suffix written for every intent as for Set
Suffix_ParameterAlways(entry) == ParamString(entry)

\* what SendCurrentCommand writes after the address and the command characters
Suffix(entry) ==
    IF entry.GetOrSet = "Get" THEN Str(<<"?">>) ELSE ParamString(entry)

\* the bytes SendCurrentCommand writes when the write of the address succeeds
CommandLine(entry) ==
    ControllerAdress \o CommandLibrary[entry.Command + 1].CommandChar
    \o Suffix(entry) \o Str(<<"\r","\n">>)

\* SMC100C::SetCommand(Type, Parameter, GetOrSet)
SetCommand(Type, Parameter, GetOrSet) ==
    [Command |-> EnumValue(Type), Parameter |-> Parameter, GetOrSet |-> GetOrSet]

\* a public operation starts and calls SetCommand; written, sent, response and
\* status are those of the operation under way
Driver_SetCommand ==
    /\ smc.pc = "idle"
    /\ \E i \in 1 .. Len(CommandType), Parameter \in Parameters, GetOrSet \in CommandGetSetType :
          smc' = [SmcConstructed EXCEPT
                     !.pc = "set", !.Type = CommandType[i],
                     !.CommandToPrint = SetCommand(CommandType[i], Parameter, GetOrSet)]
    /\ UNCHANGED <<runVars, reader, unitVars>>

\* the four my_serial.write calls of SendCurrentCommand, in order: what
\* each one is to write
LineParts(entry) ==
    << ControllerAdress, CommandLibrary[entry.Command + 1].CommandChar,
       Suffix(entry), Str(<<"\r","\n">>) >>

\* the writes of SendCurrentCommand, the one a short write can befall
WriteNames == <<"address", "code", "suffix", "terminator">>

\* what a short write of text puts on the wire: all but its last byte
ShortOf(text) == SubSeq(text, 1, Len(text) - 1)

\* the bytes on the wire after SendCurrentCommand when the write named
\* short wrote fewer bytes than it was given ("none": no short write):
\* nothing after a short write of the address, else every part
WrittenWith(entry, short) ==
    LET parts == LineParts(entry)
        part(k) == IF WriteNames[k] = short THEN ShortOf(parts[k]) ELSE parts[k]
    IN  IF short = "address" THEN part(1)
        ELSE part(1) \o part(2) \o part(3) \o part(4)

\* the value SendCurrentCommand returns, were every write's count compared
\* with the length of its text
SendStatus_EveryWriteChecked(short) == short = "none"

\* the value SendCurrentCommand returns: false only from the test of the
\* count of the address write; the counts of the other writes are dropped
SendStatus(short) == short # "address"

\* SMC100C::SendCurrentCommand(): false and nothing more written when the
\* write of the address is short
Driver_SendCurrentCommand ==
    /\ smc.pc = "set"
    /\ \E short \in {"none"} \cup {WriteNames[k] : k \in 1 .. Len(WriteNames)} :
          /\ short # "none" =>
                \E k \in 1 .. Len(WriteNames) :
                    WriteNames[k] = short /\ LineParts(smc.CommandToPrint)[k] # <<>>
          /\ smc' = [smc EXCEPT !.pc = "idle",
                                !.written = WrittenWith(smc.CommandToPrint, short),
                                !.short = short,
                                !.sent = SendStatus(short)]
    /\ UNCHANGED <<runVars, reader, unitVars>>

\* the two-character tokens without an entry in StatusLibrary that are tried
UnmappedTokens == {Str(<<"0","0">>), Str(<<"3","6">>), Str(<<"9","9">>), Str(<<"T","S">>)}

\* what SerialRead can return after a TS query: a full status line with any
\* token, a shorter line, "Timeout" (readString = 0), "Error" (readString < 0)
StatusResponses ==
    {StatusLine(StatusLibrary[i].Code) : i \in 1 .. Len(StatusLibrary)}
    \cup {StatusLine(t) : t \in UnmappedTokens}
    \cup {Str(<<"1","T","S","\r","\n">>), Str(<<"\n">>),
          Str(<<"1","T","S","0","0","0","\n">>), Str(<<"1","T","S","0","0","0","0","\n">>)}
    \cup {TimeoutText, ErrorText}

\* SMC100C::GetCurrentStatus(): flush, SetCommand(ErrorStatus, 0.0, Get),
\* SendCurrentCommand(), SerialRead(), substr(7, 2), look-up
Driver_GetCurrentStatus ==
    /\ smc.pc = "idle"
    /\ \E addressWritten \in BOOLEAN, response \in StatusResponses :
          LET entry == SetCommand("ErrorStatus", 0, "Get") IN
          smc' = [pc |-> "idle", Type |-> "ErrorStatus", CommandToPrint |-> entry,
                  written |-> IF addressWritten THEN CommandLine(entry) ELSE <<>>,
                  sent |-> addressWritten,
                  short |-> IF addressWritten THEN "none" ELSE "address",
                  response |-> response,
                  status |-> GetCurrentStatus(response)]
    /\ UNCHANGED <<runVars, reader, unitVars>>

DriverInit == NoRun /\ smc = SmcConstructed /\ reader = ReaderIdle /\ UnitsIdle

DriverNext ==
    \/ Driver_SetCommand
    \/ Driver_SendCurrentCommand
    \/ Driver_GetCurrentStatus

DriverSpec == DriverInit /\ [][DriverNext]_vars

\* the token GetCurrentStatus looks up in a response of at least 7 characters
TokenOf(response) == SubSeq(response, 8, IF Len(response) >= 9 THEN 9 ELSE Len(response))

\* the tokens StatusLibrary maps to Ready
ReadyTokens == {Str(<<"3","2">>), Str(<<"3","3">>), Str(<<"3","4">>), Str(<<"3","5">>)}

\* the status names GetCurrentStatus can return for a mapped token
MappedStatusNames ==
    {"Configuration", "No Reference", "Homing", "Moving", "Ready", "Disabled",
     "Jogging", "Error", "Unknown", "Unknown Status"}

\* GetCurrentStatus has returned for the response read
StatusReturned == smc.response # <<>> /\ ~smc.status.throws

\* C12: GetCurrentStatus returns "Ready" exactly for the tokens 32, 33, 34,
\* 35 at offset 7 of the response; for a token without a table entry it
\* returns "Unknown Status Code: " followed by the raw token, which is none
\* of the names returned for mapped tokens.
C12_ReadyAndUnknownTokens ==
    StatusReturned =>
        LET token == TokenOf(smc.response)
            mapped == \E i \in 1 .. Len(StatusLibrary) : StatusLibrary[i].Code = token
        IN  /\ IsReady(smc.status) <=> token \in ReadyTokens
            /\ token = Str(<<"3","3">>) => (smc.status.text = "Ready" /\ smc.status.tail = <<>>)
            /\ mapped => (smc.status.text \in MappedStatusNames /\ smc.status.tail = <<>>)
            /\ ~mapped => /\ smc.status.text = "Unknown Status Code: "
                          /\ smc.status.tail = token
                          /\ smc.status.text \notin MappedStatusNames

\* a status line with token 33 was decoded
C12_Witness ==
    /\ smc.response = StatusLine(Str(<<"3","3">>))
    /\ IsReady(smc.status)

\* a status line with an unmapped token was decoded
C12_WitnessUnmapped ==
    /\ smc.response = StatusLine(Str(<<"3","6">>))
    /\ smc.status.text = "Unknown Status Code: "
    /\ smc.status.tail = Str(<<"3","6">>)

\* C13: GetCurrentStatus returns a status value and raises no exception for
\* every response SerialRead can deliver.
C13_StatusDecodingNeverFails == smc.response # <<>> => ~smc.status.throws

\* the same for the responses of at least 7 characters (what the code does)
C13_DecodingOfLongResponses ==
    smc.response # <<>> => (smc.status.throws <=> Len(smc.response) < 7)

\* SendCurrentCommand has returned true for the command set, and none of
\* its writes was short
LineSent == smc.pc = "idle" /\ smc.sent /\ smc.short = "none"

\* the characters of a line between the two command characters and CR LF
MiddleOf(line) == SubSeq(line, 4, Len(line) - 2)

\* the integer a text of an optional '-' and decimal digits stands for
ParseInt(text) ==
    IF text # <<>> /\ text[1] = 45 THEN -stoi(Tail(text)) ELSE stoi(text)

\* the number of halves a text "<whole>.<six decimals>" with an optional '-'
\* stands for
ParseHalves(text) ==
    LET neg == text # <<>> /\ text[1] = 45
        body == IF neg THEN Tail(text) ELSE text
        whole == SubSeq(body, 1, Len(body) - 7)
        frac == SubSeq(body, Len(body) - 5, Len(body))
        halves == 2 * stoi(whole) + (IF frac = Str(<<"5","0","0","0","0","0">>) THEN 1 ELSE 0)
    IN  IF neg THEN -halves ELSE halves

\* C14: the line SendCurrentCommand sends is the address '1', the two
\* characters of the command's wire code, then '?' exactly when the intent
\* is Get, or for the intent Set the text of the parameter (integer text for
\* the kind Int, decimal text for the kind Float), then CR LF; the command
\* type and the get marker are recovered from the line.
C14_CommandLineFormat ==
    LineSent =>
        LET entry == smc.CommandToPrint
            command == CommandLibrary[entry.Command + 1]
            line == smc.written
            middle == MiddleOf(line)
        IN  /\ Len(line) >= 5
            /\ line[1] = 49
            /\ SubSeq(line, 2, 3) = command.CommandChar
            /\ SubSeq(line, Len(line) - 1, Len(line)) = <<13, 10>>
            /\ (middle = <<63>>) <=> (entry.GetOrSet = "Get")
            /\ (63 \in {line[k] : k \in 1 .. Len(line)}) <=> (entry.GetOrSet = "Get")
            /\ (entry.GetOrSet = "Set" /\ command.SendType = "Int") =>
                  /\ middle # <<>>
                  /\ \A k \in 1 .. Len(middle) : IsDigit(middle[k]) \/ (k = 1 /\ middle[k] = 45)
                  /\ ParseInt(middle) = TruncateToInt(entry.Parameter)
            /\ (entry.GetOrSet = "Set" /\ command.SendType = "Float") =>
                  /\ Len(middle) >= 8
                  /\ middle[Len(middle) - 6] = 46
                  /\ ParseHalves(middle) = entry.Parameter
            /\ \A i \in 1 .. Len(CommandLibrary) :
                  CommandLibrary[i].CommandChar = SubSeq(line, 2, 3) => i = entry.Command + 1

\* a Set of a Float command with a negative fraction was sent
C14_Witness ==
    /\ LineSent
    /\ smc.CommandToPrint.GetOrSet = "Set"
    /\ CommandLibrary[smc.CommandToPrint.Command + 1].Command = "MoveRel"
    /\ smc.CommandToPrint.Parameter = -3

C15_NoneIntentOfNoneKind ==
    (LineSent /\ smc.CommandToPrint.GetOrSet = "None") =>
        (MiddleOf(smc.written) = <<>>
            <=> CommandLibrary[smc.CommandToPrint.Command + 1].SendType = "None")

\* SendCurrentCommand was called for the command set and has returned
SendReturned == smc.pc = "idle" /\ smc # SmcConstructed /\ smc.response = <<>>

C16_SetOfNoneKindIsSentBare ==
    (/\ LineSent
     /\ smc.CommandToPrint.GetOrSet = "Set"
     /\ CommandLibrary[smc.CommandToPrint.Command + 1].SendType = "None")
        => MiddleOf(smc.written) = <<>>

\* C17: CommandLibrary has exactly one entry for every CommandType, no two
\* entries share a wire code, and the entry at index i is the entry of the
\* CommandType of enum value i, so that SetCommand selects the entry of the
\* type it is given.
C17_CommandTableIndexedByEnum ==
    /\ Len(CommandLibrary) = Len(CommandType)
    /\ \A i, j \in 1 .. Len(CommandType) : CommandType[i] = CommandType[j] => i = j
    /\ \A k \in 1 .. Len(CommandType) :
          Cardinality({i \in 1 .. Len(CommandLibrary) :
                          CommandLibrary[i].Command = CommandType[k]}) = 1
    /\ \A i, j \in 1 .. Len(CommandLibrary) :
          CommandLibrary[i].CommandChar = CommandLibrary[j].CommandChar => i = j
    /\ \A i \in 1 .. Len(CommandLibrary) :
          /\ CommandLibrary[i].Command = CommandType[i]
          /\ Len(CommandLibrary[i].CommandChar) = 2
    /\ smc.pc = "set" =>
          /\ smc.CommandToPrint.Command \in 0 .. Len(CommandLibrary) - 1
          /\ CommandLibrary[smc.CommandToPrint.Command + 1].Command = smc.Type

\* SetCommand was called for the last enumerator
C17_Witness == smc.pc = "set" /\ smc.Type = "ESPStageConfig"

(***************************************************************************)
(* readSettingsOrdered                                                     *)
(***************************************************************************)
\* the largest number of data rows of a settings file
MaxRows == 4

\* what an int that was never assigned may hold
Indeterminate == {0, 10}

RECURSIVE SkipSpace(_)
\* the leading white space operator>> skips
SkipSpace(text) ==
    IF text # <<>> /\ text[1] = 32 THEN SkipSpace(Tail(text)) ELSE text

RECURSIVE DigitsPrefix(_)
\* the longest prefix of decimal digits
DigitsPrefix(text) ==
    IF text # <<>> /\ IsDigit(text[1]) THEN <<text[1]>> \o DigitsPrefix(Tail(text)) ELSE <<>>

\* the stream of one line before the first extraction
StreamOf(line) == [text |-> line, fail |-> FALSE, vals |-> <<>>]

\* iss >> int: on a failed stream the variable is left as it was (never
\* assigned); without digits the variable becomes 0 and the stream fails
ExtractInt(st) ==
    IF st.fail
    THEN [st EXCEPT !.vals = Append(@, [known |-> FALSE, value |-> 0])]
    ELSE LET t == SkipSpace(st.text)
             neg == t # <<>> /\ t[1] = 45
             body == IF neg THEN Tail(t) ELSE t
             ds == DigitsPrefix(body)
         IN  IF ds = <<>>
             THEN [text |-> t, fail |-> TRUE,
                   vals |-> Append(st.vals, [known |-> TRUE, value |-> 0])]
             ELSE [text |-> SubSeq(body, Len(ds) + 1, Len(body)), fail |-> FALSE,
                   vals |-> Append(st.vals,
                                   [known |-> TRUE,
                                    value |-> IF neg THEN -stoi(ds) ELSE stoi(ds)])]

\* iss >> char: any one character after white space
ExtractChar(st) ==
    IF st.fail THEN st
    ELSE LET t == SkipSpace(st.text) IN
         IF t = <<>> THEN [st EXCEPT !.text = t, !.fail = TRUE]
         ELSE [st EXCEPT !.text = Tail(t)]

\* the values a parsed field can have
ValuesOf(v) == IF v.known THEN {v.value} ELSE Indeterminate

\* iss >> layer >> delim >> intensity >> delim >> exposureTime >> delim >>
\* darkTime; LayerSettings currentSetting(intensity, exposureTime, darkTime):
\* the settings the row can give
ParseRow(line) ==
    LET st == ExtractInt(ExtractChar(ExtractInt(ExtractChar(ExtractInt(ExtractChar(
                  ExtractInt(StreamOf(line))))))))
    IN  {LayerSettings(i, e, d) :
            i \in ValuesOf(st.vals[2]), e \in ValuesOf(st.vals[3]), d \in ValuesOf(st.vals[4])}

\* the text of the data row of one layer
RowText(layer, s) ==
    DecimalDigits(layer) \o Str(<<",">>) \o DecimalDigits(s.intensity) \o Str(<<",">>)
    \o DecimalDigits(s.exposureTime) \o Str(<<",">>) \o DecimalDigits(s.darkTime)

\* the header row
HeaderText == Str(<<"N",",","I",",","E",",","D">>)

\* the file of a per-layer sequence of settings: header, one row per layer
FileOf(layers) == <<HeaderText>> \o [k \in 1 .. Len(layers) |-> RowText(k, layers[k])]

\* the per-layer sequences of up to MaxRows layers
LayerSequences ==
    UNION {[1 .. n -> {SettingsA, SettingsB}] : n \in 0 .. MaxRows}

\* the text of a data row whose intensity field is not a number
BadRowText(layer) == DecimalDigits(layer) \o Str(<<",","N","A",",","1",",","0">>)

\* the files with one row whose intensity field is not a number
MalformedFiles ==
    UNION {{[FileOf(layers) EXCEPT ![k + 1] = BadRowText(k)] : k \in 1 .. Len(layers)} :
              layers \in LayerSequences}

\* the settings files read
SettingsFiles == {FileOf(layers) : layers \in LayerSequences} \cup MalformedFiles

\* the state of the stream after the row's extractions: iss.fail()
RowFails(line) ==
    ExtractInt(ExtractChar(ExtractInt(ExtractChar(ExtractInt(ExtractChar(
        ExtractInt(StreamOf(line)))))))).fail

\* the index of the first entry of the table with the settings s, 0 if none
IndexOf(table, s) ==
    IF \E i \in 1 .. Len(table) : table[i][1] = s
    THEN CHOOSE i \in 1 .. Len(table) :
            table[i][1] = s /\ \A j \in 1 .. i - 1 : table[j][1] # s
    ELSE 0

\* the body of the while loop on orderedSettings, with every row appended
AddSetting_AlwaysAppend(table, counts, s) == Append(table, <<s, 1>>)

\* the body of the while loop on orderedSettings, with a new entry counted 0
AddSetting_NewCountsZero(table, counts, s) ==
    IF s \notin DOMAIN counts THEN Append(table, <<s, 0>>)
    ELSE IF IndexOf(table, s) = 0 THEN table
    ELSE [table EXCEPT ![IndexOf(table, s)] = <<s, @[2] + 1>>]

\* the body of the while loop on orderedSettings: a new entry when the map
\* does not hold the settings, else the count of the first equal entry + 1
AddSetting(table, counts, s) ==
    IF s \notin DOMAIN counts THEN Append(table, <<s, 1>>)
    ELSE IF IndexOf(table, s) = 0 THEN table
    ELSE [table EXCEPT ![IndexOf(table, s)] = <<s, @[2] + 1>>]

\* the body of the while loop on settingsCount: ++ in the else branch and
\* ++ after the if
CountSetting(counts, s) ==
    IF s \notin DOMAIN counts THEN counts @@ (s :> 1)
    ELSE [counts EXCEPT ![s] = @ + 2]

\* the call of readSettingsOrdered(filePath): open the file, declare the
\* locals, skip the header with one getline
Reader_Open ==
    /\ reader.pc = "idle"
    /\ \E file \in SettingsFiles :
          reader' = [ReaderIdle EXCEPT !.pc = "rows", !.file = file, !.line = 1, !.pass = 1]
    /\ UNCHANGED <<runVars, smc, unitVars>>

\* one iteration of while (std::getline(file, line))
Reader_Row ==
    /\ reader.pc = "rows"
    /\ reader.line < Len(reader.file)
    /\ \E currentSetting \in ParseRow(reader.file[reader.line + 1]) :
          reader' = [reader EXCEPT
                       !.line = @ + 1,
                       !.orderedSettings = AddSetting(@, reader.settingsCount, currentSetting),
                       !.settingsCount = CountSetting(@, currentSetting),
                       !.source = Append(@, currentSetting)]
    /\ UNCHANGED <<runVars, smc, unitVars>>

\* getline fails at the end of the file: return orderedSettings
Reader_Return ==
    /\ reader.pc = "rows"
    /\ reader.line >= Len(reader.file)
    /\ reader' = [reader EXCEPT !.pc = "returned"]
    /\ UNCHANGED <<runVars, smc, unitVars>>

RECURSIVE Expand(_)
\* each group of a table repeated count times, in table order
Expand(table) ==
    IF table = <<>> THEN <<>>
    ELSE [k \in 1 .. table[1][2] |-> table[1][1]] \o Expand(Tail(table))

\* the serialized form of a table: a header row, then each group's row
\* repeated count times, in order
Serialize(table) == FileOf(Expand(table))

\* the table returned is written out in its serialized form and
\* readSettingsOrdered is called on that file
Reader_LoadSerialized ==
    /\ reader.pc = "returned"
    /\ reader.pass = 1
    /\ reader' = [ReaderIdle EXCEPT !.pc = "rows", !.file = Serialize(reader.orderedSettings),
                                    !.line = 1, !.pass = 2,
                                    !.loaded = reader.orderedSettings]
    /\ UNCHANGED <<runVars, smc, unitVars>>

ReaderInit == NoRun /\ smc = SmcConstructed /\ reader = ReaderIdle /\ UnitsIdle

ReaderNext ==
    \/ Reader_Open
    \/ Reader_Row
    \/ Reader_Return
    \/ Reader_LoadSerialized

ReaderSpec == ReaderInit /\ [][ReaderNext]_vars

\* the number of rows read so far with the settings s
RowsWith(s) == Cardinality({k \in 1 .. Len(reader.source) : reader.source[k] = s})

\* the row at which the settings s appear first
FirstRowWith(s) ==
    CHOOSE k \in 1 .. Len(reader.source) :
        reader.source[k] = s /\ \A j \in 1 .. k - 1 : reader.source[j] # s

\* C18: the table of readSettingsOrdered holds no two entries with equal
\* settings, its entries are in the order in which their settings appear
\* first in the rows, and the count of an entry is the number of rows with
\* its settings, so that the counts sum to the number of rows.
C18_TableWithoutDuplicates ==
    LET table == reader.orderedSettings IN
    /\ \A i, j \in 1 .. Len(table) : table[i][1] = table[j][1] => i = j
    /\ {table[i][1] : i \in 1 .. Len(table)}
          = {reader.source[k] : k \in 1 .. Len(reader.source)}
    /\ \A i, j \in 1 .. Len(table) :
          i < j => FirstRowWith(table[i][1]) < FirstRowWith(table[j][1])
    /\ \A i \in 1 .. Len(table) : table[i][2] = RowsWith(table[i][1])
    /\ SumCounts(table) = Len(reader.source)
    /\ reader.pc = "returned" => Len(reader.source) = Len(reader.file) - 1

\* a file of MaxRows rows in which settings recur after other settings was
\* loaded
C18_Witness ==
    /\ reader.pc = "returned"
    /\ reader.pass = 1
    /\ Len(reader.source) = MaxRows
    /\ Len(reader.orderedSettings) = 2
    /\ reader.source[1] = reader.source[3]
    /\ reader.source[1] # reader.source[2]

\* C19: only adjacent equal rows collapse into a group: the table returned,
\* expanded, is the per-layer sequence of the rows.
C19_ExpansionIsTheSource ==
    reader.pc = "returned" => Expand(reader.orderedSettings) = reader.source

\* the expansion holds the rows of the source grouped by settings (what the
\* code does): the same rows, not in the same order
C19_ExpansionIsAPermutation ==
    reader.pc = "returned" =>
        /\ Len(Expand(reader.orderedSettings)) = Len(reader.source)
        /\ \A s \in {SettingsA, SettingsB} :
              Cardinality({k \in 1 .. Len(reader.source) :
                              Expand(reader.orderedSettings)[k] = s}) = RowsWith(s)

\* C20: loading the serialized form of a table that readSettingsOrdered
\* returned gives the same groups with the same counts in the same order.
C20_LoadIsIdempotent ==
    (reader.pc = "returned" /\ reader.pass = 2) => reader.orderedSettings = reader.loaded

\* the serialized form of a table of two groups, one of them repeated, was
\* loaded
C20_Witness ==
    /\ reader.pc = "returned"
    /\ reader.pass = 2
    /\ Len(reader.loaded) = 2
    /\ reader.loaded[2][2] >= 2


\* the rows of the file read so far whose extraction failed
MalformedRowsRead ==
    {k \in 2 .. reader.line : k <= Len(reader.file) /\ RowFails(reader.file[k])}

\* C21: a settings row with a non-numeric field makes the load fail with a
\* parse error: the row is neither skipped nor turned into a table entry or
\* an increment.
C21_MalformedRowFailsTheLoad ==
    (reader.pass = 1 /\ MalformedRowsRead # {})
        => /\ reader.pc # "returned"
           /\ \A k \in MalformedRowsRead :
                 IndexOf(reader.orderedSettings, reader.source[k - 1]) = 0

\* what the code does with such a row: the row gives settings of intensity
\* 0 and of unassigned exposure and dark times, which are in the table
C21_MalformedRowIsStored ==
    reader.pass = 1 =>
        \A k \in MalformedRowsRead :
            /\ reader.pc \in {"rows", "returned"}
            /\ reader.source[k - 1].intensity = 0
            /\ IndexOf(reader.orderedSettings, reader.source[k - 1]) # 0

\* a file with a malformed row was read to its end
C21_Witness == reader.pass = 1 /\ reader.pc = "returned" /\ MalformedRowsRead # {}

(***************************************************************************)
(* customSort on its own                                                   *)
(***************************************************************************)
\* the digits of the file names compared, each with the integer it stands for
IndexTexts ==
    { <<Str(<<"2">>), 2>>, <<Str(<<"9">>), 9>>, <<Str(<<"1","0">>), 10>>,
      <<Str(<<"0","1","0">>), 10>>, <<Str(<<"1","1">>), 11>>, <<Str(<<"1","0","0">>), 100>> }

\* the path SEC_<digits>.PNG
SecPath(digits) == Str(<<"S","E","C","_">>) \o digits \o Str(<<".","P","N","G">>)

\* the paths with a layer index: in the current directory and in directory D
IndexedPaths ==
    {[path |-> SecPath(t[1]), index |-> t[2]] : t \in IndexTexts}
    \cup {[path |-> Str(<<"D","/">>) \o SecPath(Str(<<"9">>)), index |-> 9]}

\* a path whose index is too large for an int
OverflowPath == SecPath(Str(<<"9","9","9","9","9","9","9","9","9","9">>))

\* paths the regular expression does not match
OtherPaths ==
    { Str(<<"S","E","C","_",".","P","N","G">>), Str(<<"A","B","C",".","P","N","G">>),
      Str(<<"S","E","C","_","5",".","B","M","P">>) }

\* the paths customSort is called with
SortInputs == {x.path : x \in IndexedPaths} \cup {OverflowPath} \cup OtherPaths

\* what a call customSort(a, b) gives: true, false, or the exception of
\* std::stoi
Compare(a, b) ==
    IF /\ regex_search(a) /\ regex_search(b)
       /\ (OutOfRange(Capture(a)) \/ OutOfRange(Capture(b)))
    THEN "out_of_range"
    ELSE IF customSort(a, b) THEN "true" ELSE "false"

\* a call customSort(a, b) made by std::sort over a directory that holds
\* a, b and c
Sorter_Call ==
    /\ sorter.pc \in {"idle", "returned"}
    /\ \E a, b, c \in SortInputs :
          sorter' = [pc |-> "called", a |-> a, b |-> b, c |-> c, result |-> "none",
                     less |-> <<>>]
    /\ UNCHANGED <<runVars, smc, reader, waiter, engine, port, query, worker>>

\* the body of customSort: the regex searches, the two std::stoi, the
\* comparison; an exception of std::stoi leaves the function. less holds
\* what the calls on the pairs of the directory's names give
Sorter_Return ==
    /\ sorter.pc = "called"
    /\ sorter' = [sorter EXCEPT
                    !.pc = "returned",
                    !.result = Compare(sorter.a, sorter.b),
                    !.less = [p \in {sorter.a, sorter.b, sorter.c}
                                     \X {sorter.a, sorter.b, sorter.c}
                                 |-> Compare(p[1], p[2])]]
    /\ UNCHANGED <<runVars, smc, reader, waiter, engine, port, query, worker>>

SorterInit == NoRun /\ smc = SmcConstructed /\ reader = ReaderIdle /\ UnitsIdle

SorterNext == Sorter_Call \/ Sorter_Return

SorterSpec == SorterInit /\ [][SorterNext]_vars

\* C22: for two file names that both hold a layer index, SEC_<digits>.PNG,
\* customSort(a, b) is true exactly when the integer of a is less than the
\* integer of b, whatever the order of the names as text.
C22_OrderByLayerIndex ==
    sorter.pc = "returned" =>
        \A x, y \in IndexedPaths :
            (sorter.a = x.path /\ sorter.b = y.path)
                => /\ sorter.result \in {"true", "false"}
                   /\ sorter.result = "true" <=> x.index < y.index

\* SEC_9.PNG was compared with SEC_10.PNG, which is before it as text
C22_Witness ==
    /\ sorter.pc = "returned"
    /\ sorter.a = SecPath(Str(<<"9">>))
    /\ sorter.b = SecPath(Str(<<"1","0">>))
    /\ StringLess(sorter.b, sorter.a)
    /\ sorter.result = "true"

(***************************************************************************)
(* waitForPosition                                                         *)
(***************************************************************************)
\* the timeouts waitForPosition is called with, in seconds
Timeouts == {0, 1, 2}

\* what one iteration of the loop can take, in tenths of a second: the two
\* sleeps of 50 ms and a query that answers at once, or a query that stalls
IterationTenths == {1, 12}

\* the clock is read only to compare an elapsed time with the timeout, so
\* elapsed times are counted up to WaitCap tenths of a second
WaitCap ==
    10 * (CHOOSE t \in Timeouts : \A u \in Timeouts : u <= t)
    + (CHOOSE d \in IterationTenths : \A e \in IterationTenths : e <= d)

\* the target positions, in ten-thousandths of a millimetre
TargetPositions == {50000}

\* the tolerances, in ten-thousandths of a millimetre (0.01 mm)
Tolerances == {100}

\* what GetPosition returns: the position on target, within the tolerance,
\* off target, too short a reply, SerialRead's "Timeout" and "Error", and a
\* reply without a number
PositionReplies ==
    { Str(<<"1","T","P","5",".","0","0","0","0","\r","\n">>),
      Str(<<"1","T","P","5",".","0","0","5","0","\r","\n">>),
      Str(<<"1","T","P","4",".","0","0","0","0","\r","\n">>),
      Str(<<"1","T","P","5",".","0","\r","\n">>),
      TimeoutText,
      ErrorText,
      Str(<<"1","T","P","?","?","?","?","?","?","\r","\n">>) }

\* pos.erase(std::remove(pos.begin(), pos.end(), ch), pos.end())
EraseChar(s, ch) == SelectSeq(s, LAMBDA c : c # ch)

\* the first four decimals of a fraction, as a number of ten-thousandths
FractionOf(ds) ==
    LET d(k) == IF k <= Len(ds) THEN ds[k] - 48 ELSE 0
    IN  1000 * d(1) + 100 * d(2) + 10 * d(3) + d(4)

\* std::stof: white space, an optional sign, digits with an optional
\* fraction; std::invalid_argument when there is no digit. The value is in
\* ten-thousandths.
stof(text) ==
    LET t == SkipSpace(text)
        neg == t # <<>> /\ t[1] = 45
        body == IF t # <<>> /\ t[1] \in {43, 45} THEN Tail(t) ELSE t
        whole == DigitsPrefix(body)
        rest == SubSeq(body, Len(whole) + 1, Len(body))
        frac == IF rest # <<>> /\ rest[1] = 46 THEN DigitsPrefix(Tail(rest)) ELSE <<>>
        magnitude == 10000 * stoi(whole) + FractionOf(frac)
    IN  IF whole = <<>> /\ frac = <<>>
        THEN [throws |-> TRUE, value |-> 0]
        ELSE [throws |-> FALSE, value |-> IF neg THEN -magnitude ELSE magnitude]

\* checkTimeout that never reports the timeout
checkTimeout_Never(elapsed, timeout) == FALSE

\* checkTimeout(startTime, timeout): duration_cast<seconds>(now - startTime)
\* >= timeout, with the elapsed time in tenths of a second
checkTimeout(elapsed, timeout) == elapsed \div 10 >= timeout

\* the exception the try block of one iteration throws for the reply pos
ThrownBy(pos) ==
    LET text == EraseChar(EraseChar(pos, 10), 13)
        field == substr(text, 3, 6)
    IN  IF Len(text) < 9 THEN "none"
        ELSE IF field.throws THEN "out_of_range"
        ELSE IF stof(field.str).throws THEN "invalid_argument"
        ELSE "none"

\* the exceptions catch (const std::exception&) handles
StdExceptions == {"out_of_range", "invalid_argument"}

\* the try block of one iteration: what positionMatched is after it
MatchedBy(pos, targetPosition, tolerance) ==
    LET text == EraseChar(EraseChar(pos, 10), 13)
        currentPosition == stof(substr(text, 3, 6).str)
    IN  /\ Len(text) >= 9
        /\ ThrownBy(pos) = "none"
        /\ Abs(currentPosition.value - targetPosition) < tolerance

\* the call waitForPosition(controller, targetPosition, tolerance, timeout)
Waiter_Call ==
    /\ waiter.pc \in {"idle", "returned"}
    /\ \E target \in TargetPositions, tol \in Tolerances, timeout \in Timeouts :
          waiter' = [pc |-> "loop", targetPosition |-> target, tolerance |-> tol,
                     timeout |-> timeout, elapsed |-> 0, pos |-> <<>>,
                     positionMatched |-> FALSE, moved |-> FALSE, caught |-> "none",
                     set |-> "none"]
    /\ UNCHANGED <<runVars, smc, reader, sorter, engine, port, query, worker>>

\* one iteration of while (!positionMatched): the sleeps, GetPosition, the
\* comparison inside try / catch, AbsoluteMove, checkTimeout and the test
\* of the loop
Waiter_Iteration ==
    /\ waiter.pc = "loop"
    /\ \E pos \in PositionReplies, took \in IterationTenths :
          LET matched == MatchedBy(pos, waiter.targetPosition, waiter.tolerance)
              elapsed == IF waiter.elapsed + took > WaitCap THEN WaitCap
                         ELSE waiter.elapsed + took
          IN  waiter' = [waiter EXCEPT
                           !.pos = pos,
                           !.elapsed = elapsed,
                           !.positionMatched = matched,
                           !.moved = ThrownBy(pos) \in StdExceptions \cup {"none"},
                           !.set = IF ThrownBy(pos) \in StdExceptions \cup {"none"}
                                   THEN "AbsoluteMove" ELSE "none",
                           !.caught = ThrownBy(pos),
                           !.pc = IF ThrownBy(pos) \notin StdExceptions \cup {"none"}
                                  THEN "threw"
                                  ELSE IF checkTimeout(elapsed, waiter.timeout) \/ matched
                                  THEN "returned" ELSE "loop"]
    /\ UNCHANGED <<runVars, smc, reader, sorter, engine, port, query, worker>>

\* the target velocities, in ten-thousandths of a millimetre per second
TargetVelocities == {50000}

\* the velocity tolerances, in ten-thousandths (0.5 mm/s)
VelocityTolerances == {5000}

\* what GetVelocity returns: the velocity on target, off target, replies of
\* three, two and one characters, and SerialRead's "Timeout"
VelocityReplies ==
    { Str(<<"1","V","A","5",".","0","0","0","0","\r","\n">>),
      Str(<<"1","V","A","1","0","\r","\n">>),
      Str(<<"1","V","A","\r","\n">>),
      Str(<<"1","V","\r","\n">>),
      Str(<<"1","\r","\n">>),
      TimeoutText }

\* the exception the try block of one iteration of waitForVelocity throws
\* for the reply vel
VelocityThrownBy(vel) ==
    LET text == EraseChar(EraseChar(vel, 10), 13)
        field == substr(text, 3, 2)
    IN  IF Len(text) < 2 THEN "none"
        ELSE IF field.throws THEN "out_of_range"
        ELSE IF stof(field.str).throws THEN "invalid_argument"
        ELSE "none"

\* the try block of one iteration of waitForVelocity: what velocityMatched
\* is after it
VelocityMatchedBy(vel, targetVelocity, tolerance) ==
    LET text == EraseChar(EraseChar(vel, 10), 13)
        currentVelocity == stof(substr(text, 3, 2).str)
    IN  /\ Len(text) >= 2
        /\ VelocityThrownBy(vel) = "none"
        /\ Abs(currentVelocity.value - targetVelocity) < tolerance

\* the call waitForVelocity(controller, targetVelocity, tolerance, timeout)
Waiter_CallVelocity ==
    /\ waiter.pc \in {"idle", "returned"}
    /\ \E target \in TargetVelocities, tol \in VelocityTolerances, timeout \in Timeouts :
          waiter' = [pc |-> "velocity loop", targetPosition |-> target, tolerance |-> tol,
                     timeout |-> timeout, elapsed |-> 0, pos |-> <<>>,
                     positionMatched |-> FALSE, moved |-> FALSE, caught |-> "none",
                     set |-> "none"]
    /\ UNCHANGED <<runVars, smc, reader, sorter, engine, port, query, worker>>

\* one iteration of while (!velocityMatched): the sleeps, GetVelocity, the
\* comparison inside try / catch, SetVelocity, checkTimeout and the test of
\* the loop
Waiter_VelocityIteration ==
    /\ waiter.pc = "velocity loop"
    /\ \E vel \in VelocityReplies, took \in IterationTenths :
          LET matched == VelocityMatchedBy(vel, waiter.targetPosition, waiter.tolerance)
              thrown == VelocityThrownBy(vel)
              elapsed == IF waiter.elapsed + took > WaitCap THEN WaitCap
                         ELSE waiter.elapsed + took
          IN  waiter' = [waiter EXCEPT
                           !.pos = vel,
                           !.elapsed = elapsed,
                           !.positionMatched = matched,
                           !.moved = FALSE,
                           !.set = IF thrown \in StdExceptions \cup {"none"}
                                   THEN "SetVelocity" ELSE "none",
                           !.caught = thrown,
                           !.pc = IF thrown \notin StdExceptions \cup {"none"}
                                  THEN "threw"
                                  ELSE IF checkTimeout(elapsed, waiter.timeout) \/ matched
                                  THEN "returned" ELSE "velocity loop"]
    /\ UNCHANGED <<runVars, smc, reader, sorter, engine, port, query, worker>>

WaiterInit == NoRun /\ smc = SmcConstructed /\ reader = ReaderIdle /\ UnitsIdle

WaiterNext ==
    Waiter_Call \/ Waiter_Iteration \/ Waiter_CallVelocity \/ Waiter_VelocityIteration

WaiterSpec == WaiterInit /\ [][WaiterNext]_vars

\* the thread that runs waitForPosition keeps running
WaiterFairSpec ==
    WaiterSpec /\ WF_vars(Waiter_Iteration) /\ WF_vars(Waiter_VelocityIteration)

\* the position of a reply as the controller means it, 0 without a number
ReportedWithin(pos, target, tol) ==
    \E whole \in 0 .. 9, frac \in {0, 50} :
        /\ pos = Str(<<"1","T","P">>) \o DecimalDigits(whole) \o Str(<<".","0","0">>)
                 \o DecimalDigits(frac \div 10) \o Str(<<"0","\r","\n">>)
        /\ Abs(10000 * whole + frac - target) < tol

C24_UnreadableDirectoryEndsTheRun ==
    (~args.dirReadable /\ loopPc # "start")
        => /\ loopPc = "returned"
           /\ hist.exit = "filesystem error"
           /\ ~env.portOpen
           /\ task = TaskIdle /\ moveLog = <<>> /\ shutdownLog = <<>>
           /\ hist.launches = 0
           /\ hist.imageFrames = 0 /\ hist.phaseFrames = 0 /\ env.screen = "none"
           /\ exposed = <<>> /\ loop = LoopLocals

\* RunFullDynamic was called for a directory that cannot be enumerated
C24_Witness ==
    ~args.dirReadable /\ args.mode = "dynamic" /\ loopPc = "returned"

\* the loop is in the dark phase
DarkPhase == InLoop /\ ~LightPhase

\* C25: the abort flag is read only at the top of light-phase iterations.
\* An abort set while the loop is in the dark phase neither cancels nor
\* preempts the moveStage task of that dark phase, which runs to its end,
\* and is acted on at the first light-phase iteration that follows.
C25_AbortWaitsForLightPhase ==
    [][ /\ (loopPc' = "aborted" /\ loopPc # "aborted")
            => (AtLightIteration /\ env.abortFlag)
        /\ (DarkPhase /\ env.abortFlag)
            => /\ loopPc' # "aborted"
               /\ env'.abortFlag
               /\ hist'.exit # "abort"
               /\ task.pc \in {"move", "wait"} => task'.pc \in {"move", "wait", "done"}
               /\ task.pc = "done" /\ task' # task
                     => (loop.isStageThreadRunning /\ ~loop'.isStageThreadRunning)
        /\ (AtLightIteration /\ env.abortFlag /\ <<loop, loopPc>>' # <<loop, loopPc>>)
            => (loopPc' = "aborted" /\ exposed' = exposed) ]_vars

\* the abort flag is set in a dark phase whose stage move has come to its end
C25_Witness ==
    /\ DarkPhase
    /\ env.abortFlag
    /\ task.pc = "done"
    /\ loop.isStageThreadRunning

\* C27: during one moveStage call the RelativeMove of each sub-move is sent
\* exactly once, 1 command in clip mode and 3 otherwise, whatever the status
\* queries do, exceptions and retries included.
C27_EachSubMoveSentOnce ==
    /\ \A sub \in 1 .. Len(ExpectedMoves) :
          Cardinality({j \in 1 .. Len(moveLog) :
                          moveLog[j].ev = "RelativeMove" /\ moveLog[j].sub = sub}) <= 1
    /\ task.pc = "done" =>
          Cardinality({j \in 1 .. Len(moveLog) : moveLog[j].ev = "RelativeMove"})
              = Len(ExpectedMoves)

\* what the code does: a sub-move is sent once and once more for every
\* exception of a status query
C27_SubMoveSentAgainAfterException ==
    Cardinality({j \in 1 .. Len(moveLog) : moveLog[j].ev = "RelativeMove"})
        = task.exc + (IF task.pc = "idle" THEN 0
                      ELSE IF task.pc = "move" THEN task.sub - 1 ELSE task.sub)

(***************************************************************************)
(* moveStage on its own                                                    *)
(***************************************************************************)
\* the arguments of a call of moveStage
MoveArgs ==
    [mode : {"moveStage"}, stepSize : StepSizes \cup {3}, isClip : BOOLEAN,
     dlpPumpingAction : PumpDistances \cup {4}]

\* the call moveStage(controller, stepSize, isClip, dlpPumpingAction) on a
\* controller whose port is open
MoveStage_Call ==
    /\ task.pc \in {"idle", "done"}
    /\ task' = TaskLaunched
    /\ moveLog' = <<>>
    /\ UNCHANGED <<smc, reader, unitVars, args, loop, loopPc, env, exposed, hist, shutdownLog>>

MoveInit ==
    /\ args \in MoveArgs
    /\ loop = LoopLocals
    /\ loopPc = "returned"
    /\ env = [windowOpen |-> FALSE, closeRequested |-> FALSE, abortFlag |-> FALSE,
              current |-> 0, screen |-> "none", portOpen |-> TRUE]
    /\ task = TaskIdle
    /\ exposed = <<>>
    /\ hist = [imageFrames |-> 0, phaseFrames |-> 0, launches |-> 0, inFlight |-> 0,
               darkPhases |-> 0, badReads |-> 0, exit |-> "none"]
    /\ moveLog = <<>>
    /\ shutdownLog = <<>>
    /\ smc = SmcConstructed
    /\ reader = ReaderIdle
    /\ UnitsIdle

MoveNext == MoveStage_Call \/ MoveStage_RelativeMove \/ MoveStage_CheckReady

MoveSpec == MoveInit /\ [][MoveNext]_vars

\* a status query that was answered with a Ready code
ReadyAnswered == MoveStage_CheckReady /\ Len(moveLog') > Len(moveLog)

\* the thread of moveStage keeps running, and the controller is one that,
\* asked again and again after a relative move, eventually answers Ready
MoveFairSpec ==
    MoveSpec /\ WF_vars(MoveStage_RelativeMove) /\ SF_vars(ReadyAnswered)

\* the last sub-move was answered with Ready
LastSubMoveReady ==
    /\ moveLog # <<>>
    /\ moveLog[Len(moveLog)] = [ev |-> "Ready", sub |-> Len(ExpectedMoves), dist |-> 0]

\* C28: moveStage ends when the controller, after each relative move,
\* eventually answers a status query with a Ready code; it never returns
\* before Ready was seen after its last sub-move, so that with a controller
\* that never reports Ready it never returns.
C28_MoveStageEndsOnReady ==
    /\ [](task.pc = "done" => LastSubMoveReady)
    /\ [][(task'.pc = "done" /\ task.pc # "done")
             => /\ task.pc = "wait"
                /\ task.sub = Len(ExpectedMoves)
                /\ Len(moveLog') = Len(moveLog) + 1
                /\ LastSubMoveReady']_vars
    /\ [][(task.pc = "wait" /\ moveLog' = moveLog) => task'.pc \in {"wait", "move"}]_vars
    /\ (task.pc \in {"move", "wait"} ~> task.pc = "done")

\* a call in non-clip mode came to its end after a retry
C28_Witness ==
    /\ task.pc = "done"
    /\ ~args.isClip
    /\ task.exc >= 1
    /\ LastSubMoveReady

(***************************************************************************)
(* TurnLightEngineOn: the warm-up loop                                     *)
(***************************************************************************)
\* std::chrono::seconds maxDuration(600)
maxDuration == 600

\* what GetSysStatus returns: ready, warming up, another status
SysStatuses == {1, 4, 0}

\* what one iteration can take, in tenths of a second: the sleep of 100 ms
\* with a status call that answers at once, or a status call that stalls
WarmUpTenths == {1, 7, 3000}

\* PowerOnOff(1) and the locals of the loop: stat = 4, inittime = now
Engine_PowerOn ==
    /\ engine.pc = "idle"
    /\ engine' = [pc |-> "loop", stat |-> 4, elapsed |-> 0, power |-> TRUE, queried |-> FALSE]
    /\ UNCHANGED <<runVars, smc, reader, sorter, waiter, port, query, worker>>

\* one iteration of while (stat != 1): GetSysStatus, the sleep, the test of
\* the total time with PowerOnOff(0) and exit(1), then the test of the loop
Engine_Iteration ==
    /\ engine.pc = "loop"
    /\ \E stat \in SysStatuses, took \in WarmUpTenths :
          LET elapsed == engine.elapsed + took
              total == elapsed \div 10
          IN  engine' = [engine EXCEPT
                           !.stat = stat,
                           !.elapsed = elapsed,
                           !.queried = TRUE,
                           !.power = ~(total > maxDuration),
                           !.pc = IF total > maxDuration THEN "exit(1)"
                                  ELSE IF stat # 1 THEN "loop" ELSE "warm"]
    /\ UNCHANGED <<runVars, smc, reader, sorter, waiter, port, query, worker>>

EngineInit == NoRun /\ smc = SmcConstructed /\ reader = ReaderIdle /\ UnitsIdle

EngineNext == Engine_PowerOn \/ Engine_Iteration

EngineSpec == EngineInit /\ [][EngineNext]_vars

\* the thread that runs TurnLightEngineOn keeps running
EngineFairSpec == EngineSpec /\ WF_vars(Engine_Iteration)

\* C26: the warm-up loop of TurnLightEngineOn ends for every sequence of
\* status values: it ends as soon as the status read is the ready value 1;
\* otherwise, once more than 600 s have passed, the engine is powered off
\* and the process is ended; the loop is never left with a status other
\* than ready.
C26_WarmUpEndsOnReadyOrTimeout ==
    /\ [](engine.pc = "warm" => (engine.stat = 1 /\ engine.power))
    /\ []((engine.pc # "idle" /\ engine.queried /\ engine.stat = 1) => engine.pc = "warm")
    /\ [](engine.pc = "exit(1)" =>
             (engine.stat # 1 /\ ~engine.power /\ engine.elapsed > 10 * maxDuration))
    /\ (engine.pc = "loop" ~> engine.pc \in {"warm", "exit(1)"})

\* what the code does: the test of the total time comes before the test of
\* the status, so an iteration that ends after more than 600 s ends the
\* process whatever status it read
C26_TimeoutBeforeStatus ==
    /\ [](engine.pc = "warm" =>
             (engine.stat = 1 /\ engine.power /\ engine.elapsed \div 10 <= maxDuration))
    /\ [](engine.pc = "exit(1)" => (~engine.power /\ engine.elapsed \div 10 > maxDuration))
    /\ [](engine.pc = "loop" =>
             (engine.queried => engine.stat # 1) /\ engine.elapsed \div 10 <= maxDuration)
    /\ (engine.pc = "loop" ~> engine.pc \in {"warm", "exit(1)"})

\* the status read was ready in the iteration that ended the process
C26_Witness == engine.pc = "exit(1)" /\ engine.stat = 1

(***************************************************************************)
(* readString and SerialRead                                               *)
(***************************************************************************)
\* the largest number of bytes the device sends during one call
MaxArrive == 4

\* the values of maxNbBytes readString is called with
BufferSizes == {0, 2, 3}

\* the values of timeOut_ms readString is called with
TimeOuts_ms == {0, 20}

\* what one iteration of the loop can take, in milliseconds: the sleep of
\* 5 ms, or the sleep and a slow read
IterationMs == {5, 12}

\* the bytes on the line: finalChar '\n' and another character
LineBytes == {10, 65}

\* the bytes in the receive buffer of the port when readString is called
PendingInputs == UNION {[1 .. n -> LineBytes] : n \in 0 .. 2}

\* std::min(available, maxNbBytes - nbBytes) were it the available bytes
BytesToRead_All(available, room) == available

\* std::min(my_serial.available(), maxNbBytes - nbBytes)
BytesToRead(available, room) == IF available < room THEN available ELSE room

\* the index of the first finalChar among the bytes read, 0 if none
FirstFinal(bytes, finalChar) ==
    IF \E i \in 1 .. Len(bytes) : bytes[i] = finalChar
    THEN CHOOSE i \in 1 .. Len(bytes) :
            bytes[i] = finalChar /\ \A j \in 1 .. i - 1 : bytes[j] # finalChar
    ELSE 0

\* SerialRead: the text returned for the readStatus of readString
SerialRead(readStatus, receivedString) ==
    IF readStatus > 0 THEN receivedString
    ELSE IF readStatus = 0 THEN TimeoutText
    ELSE ErrorText

\* the call readString(my_serial, receivedString, '\n', maxNbBytes,
\* timeOut_ms): nbBytes = 0, startTime = now
Port_Call ==
    /\ port.pc \in {"idle", "returned"}
    /\ \E maxNbBytes \in BufferSizes, timeOut \in TimeOuts_ms, pending \in PendingInputs :
          port' = [pc |-> "loop", finalChar |-> 10, maxNbBytes |-> maxNbBytes,
                   timeOut_ms |-> timeOut, nbBytes |-> 0, elapsedTime |-> 0,
                   receivedString |-> <<>>, nul |-> -1, highest |-> -1,
                   line |-> pending, arrived |-> 0, readStatus |-> 0, result |-> <<>>]
    /\ UNCHANGED <<runVars, smc, reader, sorter, waiter, engine, query, worker>>

\* the device sends one more byte
Port_Receive ==
    /\ port.pc = "loop"
    /\ port.arrived < MaxArrive
    /\ \E b \in LineBytes :
          port' = [port EXCEPT !.line = Append(@, b), !.arrived = @ + 1]
    /\ UNCHANGED <<runVars, smc, reader, sorter, waiter, engine, query, worker>>

\* the state readString returns in: the NUL is stored at nbBytes
Returned(p, nbBytes, status) ==
    [p EXCEPT !.pc = "returned", !.nul = nbBytes, !.readStatus = status,
              !.highest = IF nbBytes > @ THEN nbBytes ELSE @,
              !.result = SerialRead(status, p.receivedString)]

\* one test of while (nbBytes < maxNbBytes) and, when it holds, one
\* iteration: the test of the timeout, the read of the available bytes with
\* the copy up to finalChar, the sleep of 5 ms; SerialRead's mapping of the
\* value returned
Port_Iteration ==
    /\ port.pc = "loop"
    /\ \E took \in IterationMs :
          IF ~(port.nbBytes < port.maxNbBytes)
          THEN port' = Returned(port, port.nbBytes, -3)
          ELSE IF port.elapsedTime > port.timeOut_ms
          THEN port' = Returned(port, port.nbBytes, 0)
          ELSE LET bytesToRead == BytesToRead(Len(port.line), port.maxNbBytes - port.nbBytes)
                   buffer == SubSeq(port.line, 1, bytesToRead)
                   rest == SubSeq(port.line, bytesToRead + 1, Len(port.line))
                   final == FirstFinal(buffer, port.finalChar)
                   copied == IF final > 0 THEN SubSeq(buffer, 1, final) ELSE buffer
                   stored == [port EXCEPT
                                !.line = rest,
                                !.receivedString = @ \o copied,
                                !.nbBytes = @ + Len(copied),
                                !.highest = IF copied # <<>> THEN port.nbBytes + Len(copied) - 1
                                            ELSE @]
               IN  IF final > 0
                   THEN port' = Returned(stored, stored.nbBytes, stored.nbBytes)
                   ELSE port' = [stored EXCEPT !.elapsedTime = @ + took]
    /\ UNCHANGED <<runVars, smc, reader, sorter, waiter, engine, query, worker>>

PortInit == NoRun /\ smc = SmcConstructed /\ reader = ReaderIdle /\ UnitsIdle

PortNext == Port_Call \/ Port_Receive \/ Port_Iteration

PortSpec == PortInit /\ [][PortNext]_vars

\* the thread that runs readString keeps running
PortFairSpec == PortSpec /\ WF_vars(Port_Iteration)

\* the bytes stored hold the terminator
HasFinal(bytes) == \E i \in 1 .. Len(bytes) : bytes[i] = 10

\* C30: readString always ends, with exactly one of three outcomes: a
\* positive byte count when the terminator byte was received, 0 when
\* timeOut_ms elapsed first, -3 when maxNbBytes bytes were received without
\* a terminator; it never stores more than maxNbBytes bytes and the NUL;
\* SerialRead maps the outcomes to the line, "Timeout" and "Error".
C30_ReadStringOutcomes ==
    /\ [](port.pc = "returned" =>
            /\ port.readStatus \in {-3, 0} \cup (1 .. port.maxNbBytes)
            /\ port.readStatus > 0 <=>
                  /\ port.receivedString # <<>>
                  /\ port.receivedString[Len(port.receivedString)] = 10
            /\ port.readStatus > 0 =>
                  /\ port.readStatus = Len(port.receivedString)
                  /\ ~HasFinal(SubSeq(port.receivedString, 1, port.readStatus - 1))
                  /\ port.result = port.receivedString
            /\ port.readStatus = 0 <=>
                  /\ ~HasFinal(port.receivedString)
                  /\ Len(port.receivedString) < port.maxNbBytes
            /\ port.readStatus = 0 =>
                  (port.elapsedTime > port.timeOut_ms /\ port.result = TimeoutText)
            /\ port.readStatus = -3 <=>
                  /\ ~HasFinal(port.receivedString)
                  /\ Len(port.receivedString) = port.maxNbBytes
            /\ port.readStatus = -3 => port.result = ErrorText
            /\ port.nul = Len(port.receivedString))
    /\ [](port.pc # "idle" =>
            /\ Len(port.receivedString) <= port.maxNbBytes
            /\ port.highest <= port.maxNbBytes)
    /\ (port.pc = "loop" ~> port.pc = "returned")

\* a line that fills the buffer to its last byte was read
C30_Witness ==
    /\ port.pc = "returned"
    /\ port.maxNbBytes = 3
    /\ port.readStatus = 3
    /\ port.highest = 3

(***************************************************************************)
(* The get operations of the driver                                        *)
(***************************************************************************)
\* the get operations and the CommandType each one queries
GetOperations ==
    { [name |-> "GetPosition", Type |-> "PositionReal"],
      [name |-> "GetVelocity", Type |-> "Velocity"],
      [name |-> "GetAcceleration", Type |-> "Acceleration"],
      [name |-> "GetPositiveLimit", Type |-> "PositiveSoftwareLim"],
      [name |-> "GetNegativeLimit", Type |-> "NegativeSoftwareLim"],
      [name |-> "GetCurrentStatus", Type |-> "ErrorStatus"] }

\* the bytes of a sequence, each marked with the moment it arrived at
Arrived(bytes, at) == [i \in 1 .. Len(bytes) |-> [byte |-> bytes[i], at |-> at]]

\* the bytes of a sequence of marked bytes
BytesOf(marked) == [i \in 1 .. Len(marked) |-> marked[i].byte]

\* a get operation is called; bytes of an earlier exchange may be in the
\* receive buffer
Query_Call ==
    /\ query.pc \in {"idle", "returned"}
    /\ \E op \in GetOperations, stale \in PendingInputs :
          query' = [pc |-> "called", op |-> op, buffer |-> Arrived(stale, "before the flush"),
                    ops |-> <<>>, written |-> <<>>, arrived |-> 0,
                    response |-> <<>>, result |-> <<>>]
    /\ UNCHANGED <<runVars, smc, reader, sorter, waiter, engine, port, worker>>

\* the device sends one more byte
Query_Receive ==
    /\ query.pc \in {"called", "flushed", "sent", "settled"}
    /\ query.arrived < MaxArrive
    /\ \E b \in LineBytes :
          query' = [query EXCEPT
                      !.arrived = @ + 1,
                      !.buffer = Append(@, [byte |-> b,
                                            at |-> IF query.pc = "called" THEN "before the flush"
                                                   ELSE IF query.pc = "flushed"
                                                   THEN "between the flush and the send"
                                                   ELSE "after the send"])]
    /\ UNCHANGED <<runVars, smc, reader, sorter, waiter, engine, port, worker>>

\* my_serial.flushInput()
Query_Flush ==
    /\ query.pc = "called"
    /\ query' = [query EXCEPT !.pc = "flushed", !.buffer = <<>>, !.ops = Append(@, "flushInput")]
    /\ UNCHANGED <<runVars, smc, reader, sorter, waiter, engine, port, worker>>

\* SetCommand(Type, 0.0, Get); SendCurrentCommand(), whose result is not
\* looked at: after a short write of the address nothing is on the wire
Query_Send ==
    /\ query.pc = "flushed"
    /\ \E addressWritten \in BOOLEAN :
          query' = [query EXCEPT
                      !.pc = "sent",
                      !.written = IF addressWritten
                                  THEN CommandLine(SetCommand(query.op.Type, 0, "Get"))
                                  ELSE <<>>,
                      !.ops = IF addressWritten THEN Append(@, "write") ELSE @]
    /\ UNCHANGED <<runVars, smc, reader, sorter, waiter, engine, port, worker>>

\* std::this_thread::sleep_for(10 ms), 3 ms in GetCurrentStatus
Query_Settle ==
    /\ query.pc = "sent"
    /\ query' = [query EXCEPT !.pc = "settled", !.ops = Append(@, "sleep_for")]
    /\ UNCHANGED <<runVars, smc, reader, sorter, waiter, engine, port, worker>>

\* return SerialRead(): the bytes of the receive buffer up to the first
\* terminator, or "Timeout" when there is none
Query_Read ==
    /\ query.pc = "settled"
    /\ LET final == FirstFinal(BytesOf(query.buffer), 10)
           taken == IF final > 0 THEN SubSeq(query.buffer, 1, final) ELSE query.buffer
       IN  query' = [query EXCEPT
                       !.pc = "returned",
                       !.ops = Append(@, "SerialRead"),
                       !.buffer = SubSeq(@, Len(taken) + 1, Len(@)),
                       !.response = IF final > 0 THEN taken ELSE <<>>,
                       !.result = SerialRead(final, BytesOf(taken))]
    /\ UNCHANGED <<runVars, smc, reader, sorter, waiter, engine, port, worker>>

QueryInit == NoRun /\ smc = SmcConstructed /\ reader = ReaderIdle /\ UnitsIdle

QueryNext ==
    \/ Query_Call
    \/ Query_Receive
    \/ Query_Flush
    \/ Query_Send
    \/ Query_Settle
    \/ Query_Read

QuerySpec == QueryInit /\ [][QueryNext]_vars

\* C29: every get operation performs, in this order, one input flush, one
\* send of the query line, a settle delay and one read of a single
\* terminated line; as the flush precedes the send, no byte received before
\* the query was sent is returned as its response.
C29_FlushSendSettleRead ==
    query.pc = "returned" =>
        /\ query.ops = <<"flushInput", "write", "sleep_for", "SerialRead">>
        /\ query.written = ControllerAdress
                           \o CommandLibrary[EnumValue(query.op.Type) + 1].CommandChar
                           \o Str(<<"?", "\r", "\n">>)
        /\ \A i \in 1 .. Len(query.response) : query.response[i].at = "after the send"

\* what the code does: the steps are taken in this order, the send being
\* without effect after a short write of the address; no byte received
\* before the flush is returned, and a line returned ends with the first
\* terminator received after the flush
C29_NoByteFromBeforeTheFlush ==
    /\ query.pc = "returned" =>
          /\ query.ops \in { <<"flushInput", "write", "sleep_for", "SerialRead">>,
                             <<"flushInput", "sleep_for", "SerialRead">> }
          /\ query.written # <<>> =>
                query.written = ControllerAdress
                                \o CommandLibrary[EnumValue(query.op.Type) + 1].CommandChar
                                \o Str(<<"?", "\r", "\n">>)
          /\ \A i \in 1 .. Len(query.response) : query.response[i].at # "before the flush"
          /\ query.response # <<>> =>
                /\ query.result = BytesOf(query.response)
                /\ query.response[Len(query.response)].byte = 10
                /\ \A i \in 1 .. Len(query.response) - 1 : query.response[i].byte # 10
          /\ query.response = <<>> => query.result = TimeoutText
    /\ query.pc = "flushed" => query.buffer = <<>> \/ query.arrived > 0

\* a line that arrived between the flush and the send was returned
C29_Witness ==
    /\ query.pc = "returned"
    /\ query.op.name = "GetPosition"
    /\ query.response # <<>>
    /\ query.ops = <<"flushInput", "write", "sleep_for", "SerialRead">>
    /\ \A i \in 1 .. Len(query.response) : query.response[i].at = "between the flush and the send"

(***************************************************************************)
(* Properties of the driver: the result of a send                          *)
(***************************************************************************)
\* C31: a set or command operation reports success exactly when every part
\* of the encoded line (address, wire code, suffix, terminator) was written
\* with a byte count equal to its length; a short write of any part is
\* reported as failure. The operation waits for no acknowledgement.
C31_SuccessIffEveryPartWritten ==
    SendReturned =>
        /\ smc.sent <=> smc.written = CommandLine(smc.CommandToPrint)
        /\ smc.short # "none" => ~smc.sent
        /\ smc.response = <<>>

\* what the code does: success is reported exactly when the write of the
\* address was complete; nothing is read after the send
C31_SuccessIffAddressWritten ==
    SendReturned =>
        /\ smc.sent <=> smc.short # "address"
        /\ ~smc.sent => smc.written = <<>>
        /\ smc.short = "none" => smc.written = CommandLine(smc.CommandToPrint)
        /\ smc.response = <<>>

\* Home was reported as sent although the write of its terminator was short
C31_Witness ==
    /\ SendReturned
    /\ smc.Type = "HomeSearch"
    /\ smc.CommandToPrint.GetOrSet = "None"
    /\ smc.short = "terminator"
    /\ smc.sent

(***************************************************************************)
(* Properties of waitForPosition and waitForVelocity: the set command      *)
(***************************************************************************)
\* an iteration of waitForPosition or waitForVelocity has run to its end
IterationDone == waiter.pc \in {"loop", "velocity loop", "returned"} /\ waiter.pos # <<>>

\* C32: waitForPosition and waitForVelocity re-issue the set command
\* (AbsoluteMove(target) / SetVelocity(target)) once in every iteration in
\* which the value has not matched, and issue no set command in or after
\* the iteration in which the match is detected.
C32_NoSetCommandOnceMatched ==
    IterationDone =>
        /\ ~waiter.positionMatched => waiter.set # "none"
        /\ waiter.positionMatched => waiter.set = "none"

\* what the code does: the set command is issued once at the end of every
\* iteration, the one that detects the match included, and the loop ends
\* with that iteration
C32_SetCommandInEveryIteration ==
    IterationDone =>
        /\ waiter.set # "none"
        /\ waiter.set = "AbsoluteMove" <=> waiter.moved
        /\ waiter.positionMatched => waiter.pc = "returned"

\* waitForVelocity read a velocity within the tolerance and issued
\* SetVelocity in the same iteration
C32_Witness ==
    /\ waiter.pc = "returned"
    /\ waiter.positionMatched
    /\ waiter.set = "SetVelocity"
    /\ waiter.pos = Str(<<"1","V","A","5",".","0","0","0","0","\r","\n">>)

(***************************************************************************)
(* Runs over directories at the edges: no image at all, and image files    *)
(* that loadFromFile cannot decode                                         *)
(***************************************************************************)
\* the empty directory and the directories of Listings
EdgeListings == {<<>>} \cup Listings

\* the calls of Init for a readable directory of one image
BaseArgs ==
    {a \in StaticArgs \cup DynamicArgs : a.dirReadable /\ a.directory = ByName(1)}

\* the same calls for every directory of EdgeListings, with none or one of
\* its files failing to decode
EdgeArgs ==
    UNION { { [a EXCEPT !.directory = d, !.undecodable = u] :
                a \in BaseArgs, u \in {{}} \cup {{d[k]} : k \in 1 .. Len(d)} } :
            d \in EdgeListings }

EdgeInit ==
    /\ args \in EdgeArgs
    /\ loop = LoopLocals
    /\ loopPc = "start"
    /\ \E c \in InputCurrents :
          env = [windowOpen |-> TRUE, closeRequested |-> FALSE, abortFlag |-> FALSE,
                 current |-> c, screen |-> "none", portOpen |-> FALSE]
    /\ task = TaskIdle
    /\ exposed = <<>>
    /\ hist = [imageFrames |-> 0, phaseFrames |-> 0, launches |-> 0, inFlight |-> 0,
               darkPhases |-> 0, badReads |-> 0, exit |-> "none"]
    /\ moveLog = <<>>
    /\ shutdownLog = <<>>
    /\ smc = SmcConstructed
    /\ reader = ReaderIdle
    /\ UnitsIdle

EdgeSpec == EdgeInit /\ [][Next]_vars

\* the texture the sprite is set to in a light-phase frame
PresentedBuffer == loop.textures[loop.currentTextureIndex + 1]

\* C33: double buffering: the next image is always loaded into the buffer
\* that is not the active one, the active buffer is never written while it
\* is being presented, and in every light-phase frame the presented buffer
\* holds the decoded image of imagePaths[currentImageIndex], for every
\* outcome of the load calls (success or failure).
C33_PresentedBufferHoldsCurrentImage ==
    /\ (Running /\ loop.imagePaths # <<>> /\ loop.displayImage)
           => PresentedBuffer = PathAt(loop.imagePaths, loop.currentImageIndex)
    /\ \A k \in 1 .. Len(exposed) :
           exposed[k].path # <<>> => exposed[k].texture = exposed[k].path

\* what the code does: a load goes to the buffer that is not the active one
\* and the active buffer is not written after the first preload, but a load
\* that fails leaves in its buffer what was there, and that is presented
C33_LoadsGoToTheInactiveBuffer ==
    [][ loopPc # "start" =>
          /\ loop'.textures[loop.currentTextureIndex + 1] = PresentedBuffer
          /\ loop'.textures # loop.textures =>
                /\ ~loop.nextImageLoaded /\ loop'.nextImageLoaded
                /\ loop'.textures[2 - loop.currentTextureIndex]
                     = PathAt(loop.imagePaths, loop.currentImageIndex + 1)
          /\ loop.displayImage =>
                PresentedBuffer \in {<<>>}
                    \cup {loop.imagePaths[k] : k \in 1 .. Len(loop.imagePaths)} ]_vars

\* the third image failed to decode and the light phase of layer three
\* presented the image of layer one, which its buffer still held
C33_Witness ==
    \E k \in 1 .. Len(exposed) :
        /\ exposed[k].index = 2
        /\ exposed[k].path = SortPaths(args.directory)[3]
        /\ exposed[k].texture = SortPaths(args.directory)[1]
        /\ args.undecodable = {exposed[k].path}

(***************************************************************************)
(* Properties of the run: launches of moveStage                            *)
(***************************************************************************)
\* C34: in a run without abort, RunFull and RunFullDynamic launch exactly
\* one moveStage task per completed light phase (one in each dark phase,
\* including the dark phase that follows the last image), and launch no
\* moveStage after "all images shown" has been marked, whatever number of
\* settings groups remains.
C34_OneLaunchPerLightPhase ==
    loopPc # "aborted" =>
        /\ hist.launches <= Len(exposed)
        /\ hist.launches >= Len(exposed) - 1
        /\ (loop.allImagesShown \/ (InLoop /\ ~loop.displayImage /\ loop.inLightPhase))
              => hist.launches = Len(exposed)

\* the same for the calls of RunFull only
C34_OneLaunchPerLightPhaseOfRunFull ==
    args.mode = "static" => C34_OneLaunchPerLightPhase

\* RunFullDynamic launched moveStage once more than light phases were
\* completed, in a settings group entered after "all images shown"
C34_Witness ==
    /\ args.mode = "dynamic"
    /\ loopPc # "aborted"
    /\ loop.allImagesShown
    /\ hist.launches = Len(exposed) + 1

(***************************************************************************)
(* Properties of the run: reads of imagePaths                              *)
(***************************************************************************)
\* C35: for every directory that enumerates successfully, including an
\* empty one, RunFull and RunFullDynamic never read imagePaths at an index
\* >= the number of images: the first-image preload, the "Displaying" log
\* and the next-image preload all use an index below imagePaths.size().
C35_NoReadBeyondTheEnd ==
    args.dirReadable =>
        /\ hist.badReads = 0
        /\ loopPc # "crashed"
        /\ loop.nextImageLoaded => loop.currentImageIndex + 1 < Len(loop.imagePaths)

\* what the code does: the reads stay inside imagePaths when the directory
\* holds an image, and the next-image preload does so for every directory
C35_ReadsInsideANonEmptyDirectory ==
    /\ (args.dirReadable /\ args.directory # <<>>)
          => (hist.badReads = 0 /\ loopPc # "crashed")
    /\ loop.nextImageLoaded => loop.currentImageIndex + 1 < Len(loop.imagePaths)
    /\ loopPc # "start" => loop.currentImageIndex <= Len(args.directory)

\* a run over an empty directory read imagePaths[0] for the first preload
\* and for the "Displaying" log, and went on to the end
C35_Witness ==
    /\ args.dirReadable /\ args.directory = <<>>
    /\ hist.badReads >= 2
    /\ hist.launches = 1
    /\ loopPc = "returned"

(***************************************************************************)
(* Properties of the run: what is on the screen at the return              *)
(***************************************************************************)
\* C36: on every return path of RunFull and RunFullDynamic taken after at
\* least one image frame was presented (all images shown, window closed,
\* abort), the resin is no longer being exposed when the function returns:
\* the last frame presented before the return is a blank frame or the
\* light-engine current has been set to 0.
C36_NotExposedAtReturn ==
    (loopPc \in {"returned", "aborted"} /\ hist.imageFrames >= 1)
        => (env.screen = "blank" \/ env.current = 0)

\* what the code does: only the return after "all images shown" leaves a
\* blank frame on the screen, and RunFull then leaves the current at 0
C36_NotExposedAfterAllImagesShown ==
    (loopPc = "returned" /\ hist.exit = "all images shown")
        => /\ env.screen = "blank"
           /\ args.mode = "static" => env.current = 0

\* RunFull returned on abort inside a light phase: an image frame is the
\* last one presented and the current is as it was set
C36_Witness ==
    /\ loopPc = "aborted"
    /\ args.mode = "static"
    /\ hist.phaseFrames >= 1
    /\ env.screen = "image"
    /\ env.current # 0

(***************************************************************************)
(* RunFull with its threads scheduled: liveness of the print loop          *)
(***************************************************************************)
\* the calls of RunFull for a directory that enumerates, with one initial
\* layer of the longest exposure
PrintInit ==
    /\ Init
    /\ args.mode = "static"
    /\ args.dirReadable
    /\ args.initialLayers = 1
    /\ args.initialExposureCounter = MaxCount

\* RunFull and the task it launches, with an operator who never sets the
\* abort flag and a window system that queues no close event
PrintNext ==
    \/ MoveStage_RelativeMove
    \/ MoveStage_CheckReady
    \/ RunFull_Setup
    \/ RunFull_LightTick
    \/ RunFull_GetPosition
    \/ RunFull_DarkTick
    \/ RunFull_DarkPoll
    \/ Shutdown_Join
    \/ Shutdown_GetPosition
    \/ Shutdown_Home
    \/ Shutdown_Close
    \/ Shutdown_WindowClose

PrintSpec == PrintInit /\ [][PrintNext]_vars

\* a step of the thread that runs RunFull, from the first test of the loop
\* to the return
PrintStep ==
    \/ RunFull_LightTick
    \/ RunFull_GetPosition
    \/ RunFull_DarkTick
    \/ RunFull_DarkPoll
    \/ Shutdown_Join
    \/ Shutdown_GetPosition
    \/ Shutdown_Home
    \/ Shutdown_Close
    \/ Shutdown_WindowClose

\* the thread of RunFull and the thread of moveStage keep running, and the
\* controller, asked again and again after a relative move, eventually
\* answers Ready
PrintFairSpec ==
    PrintSpec /\ WF_vars(PrintStep) /\ WF_vars(MoveStage_RelativeMove)
              /\ SF_vars(ReadyAnswered)

\* RunFull has marked "all images shown", left the loop and completed the
\* shutdown sequence
PrintCompleted ==
    /\ loopPc = "returned"
    /\ loop.allImagesShown
    /\ hist.exit = "all images shown"
    /\ shutdownLog = ShutdownSequence
    /\ Len(exposed) = Len(args.directory)

\* C37: liveness of the print loop: if the abort flag is never set, the
\* window stays open (no close event arrives), there is at least one image
\* and the controller eventually reports Ready after every relative move,
\* then RunFull, once in its loop, eventually marks "all images shown",
\* leaves the loop and completes the shutdown sequence (final position
\* query, Home, close connection, close window).
C37_PrintLoopCompletes ==
    /\ [](~env.abortFlag /\ ~env.closeRequested)
    /\ (loopPc = "while" /\ Len(loop.imagePaths) >= 1) ~> PrintCompleted

\* a run of three images that was neither aborted nor closed has completed
C37_Witness ==
    /\ PrintCompleted
    /\ Len(exposed) = 3
    /\ ~env.abortFlag
    /\ hist.launches = 3

(***************************************************************************)
(* Worker::process                                                         *)
(***************************************************************************)
\* how a call of RunFull / RunFullDynamic ends: the returns (all images
\* shown, window closed, settings exhausted, abort, filesystem error), an
\* exception let out of the function, and exit(0) when the controller
\* cannot be initialised
RunEnds(dynamicFlag, abortFlag) ==
    {"all images shown", "window closed", "filesystem error", "exception", "exit(0)"}
    \cup (IF dynamicFlag THEN {"settings exhausted"} ELSE {})
    \cup (IF abortFlag THEN {"abort"} ELSE {})

\* the ends of a run after which process() goes on
Returns == {"all images shown", "window closed", "settings exhausted", "abort",
            "filesystem error"}

\* where process() is after the run, were there no try / catch around it
AfterRun_Uncaught(end) ==
    IF end = "exit(0)" THEN "exited"
    ELSE IF end = "exception" THEN "terminated"
    ELSE "ran"

\* where process() is after the run: try { RunFull(...) } catch (const
\* std::exception&) { emit error(...) }, and exit(0) ends the process
AfterRun(end) == IF end = "exit(0)" THEN "exited" ELSE "ran"

\* the thread is started on process()
Worker_Process ==
    /\ worker.pc = "idle"
    /\ \E dynamicFlag \in BOOLEAN :
          worker' = [pc |-> "InitializeSystem", dynamicFlag |-> dynamicFlag,
                     readyToRunFull |-> FALSE, abortFlag |-> FALSE, log |-> <<>>,
                     runEnd |-> "none", errors |-> 0, finished |-> 0]
    /\ UNCHANGED <<runVars, smc, reader, sorter, waiter, engine, port, query>>

\* InitializeSystem(...): returns, or ends the process when the controller
\* cannot be initialised (exit(0)) or the light engine does not come up
\* (exit(1))
Worker_InitializeSystem ==
    /\ worker.pc = "InitializeSystem"
    /\ \E outcome \in {"returned", "exit(0)", "exit(1)"} :
          worker' = [worker EXCEPT
                       !.log = Append(@, "InitializeSystem"),
                       !.pc = IF outcome = "returned" THEN "wait" ELSE "exited"]
    /\ UNCHANGED <<runVars, smc, reader, sorter, waiter, engine, port, query>>

\* Worker::setReadyToRunFull(true), called from the thread of the window
Worker_SetReadyToRunFull ==
    /\ worker.pc \in {"InitializeSystem", "wait"}
    /\ ~worker.readyToRunFull
    /\ worker' = [worker EXCEPT !.readyToRunFull = TRUE]
    /\ UNCHANGED <<runVars, smc, reader, sorter, waiter, engine, port, query>>

\* Worker::setAbortFlag(true), called from the thread of the window
Worker_SetAbortFlag ==
    /\ worker.pc \in {"InitializeSystem", "wait", "run"}
    /\ ~worker.abortFlag
    /\ worker' = [worker EXCEPT !.abortFlag = TRUE]
    /\ UNCHANGED <<runVars, smc, reader, sorter, waiter, engine, port, query>>

\* while (!readyToRunFull) found the flag set
Worker_Wait ==
    /\ worker.pc = "wait"
    /\ worker.readyToRunFull
    /\ worker' = [worker EXCEPT !.log = Append(@, "ready"), !.pc = "run"]
    /\ UNCHANGED <<runVars, smc, reader, sorter, waiter, engine, port, query>>

\* if (dynamicFlag) try { RunFullDynamic(...) } catch ... else try {
\* RunFull(...) } catch ...
Worker_Run ==
    /\ worker.pc = "run"
    /\ \E end \in RunEnds(worker.dynamicFlag, worker.abortFlag) :
          worker' = [worker EXCEPT
                       !.log = Append(@, IF worker.dynamicFlag THEN "RunFullDynamic"
                                         ELSE "RunFull"),
                       !.runEnd = end,
                       !.errors = IF end = "exception" /\ AfterRun(end) = "ran"
                                  THEN @ + 1 ELSE @,
                       !.pc = AfterRun(end)]
    /\ UNCHANGED <<runVars, smc, reader, sorter, waiter, engine, port, query>>

\* DeinitializeSystem(...): exit(0) when the controller cannot be
\* initialised, else Home and the moves to the base position
Worker_DeinitializeSystem ==
    /\ worker.pc = "ran"
    /\ \E initialised \in BOOLEAN :
          worker' = [worker EXCEPT
                       !.log = Append(@, "DeinitializeSystem")
                               \o (IF initialised THEN <<"Home">> ELSE <<>>),
                       !.pc = IF initialised THEN "deinitialized" ELSE "exited"]
    /\ UNCHANGED <<runVars, smc, reader, sorter, waiter, engine, port, query>>

\* emit finished()
Worker_Finished ==
    /\ worker.pc = "deinitialized"
    /\ worker' = [worker EXCEPT !.finished = @ + 1, !.pc = "done"]
    /\ UNCHANGED <<runVars, smc, reader, sorter, waiter, engine, port, query>>

WorkerInit == NoRun /\ smc = SmcConstructed /\ reader = ReaderIdle /\ UnitsIdle

WorkerNext ==
    \/ Worker_Process
    \/ Worker_InitializeSystem
    \/ Worker_SetReadyToRunFull
    \/ Worker_SetAbortFlag
    \/ Worker_Wait
    \/ Worker_Run
    \/ Worker_DeinitializeSystem
    \/ Worker_Finished

WorkerSpec == WorkerInit /\ [][WorkerNext]_vars

\* the thread of process() keeps running
WorkerFairSpec ==
    WorkerSpec /\ WF_vars(Worker_DeinitializeSystem) /\ WF_vars(Worker_Finished)

\* the steps of process() in their order
ProcessSteps(dynamicFlag) ==
    <<"InitializeSystem", "ready", IF dynamicFlag THEN "RunFullDynamic" ELSE "RunFull",
      "DeinitializeSystem", "Home">>

\* the run ended in one of the four ways of the claim
RunEnded == worker.pc # "idle" /\ worker.runEnd \in Returns \cup {"exception"}

SortedNames ==
    IF sorter.pc = "returned" /\ \A p \in DOMAIN sorter.less : sorter.less[p] # "out_of_range"
    THEN {sorter.a, sorter.b, sorter.c} ELSE {}

\* customSort(x, y) returned true
Less(x, y) == sorter.less[<<x, y>>] = "true"

\* C39: customSort is a strict weak ordering over every set of file names,
\* including sets that mix names matching SEC_<digits>.PNG with names that
\* do not: it is irreflexive, asymmetric and transitive (no cycle
\* a < b < c < a exists), as std::sort requires.
C39_StrictWeakOrdering ==
    \A x, y, z \in SortedNames :
        /\ ~Less(x, x)
        /\ Less(x, y) => ~Less(y, x)
        /\ (Less(x, y) /\ Less(y, z)) => Less(x, z)

\* what the code gives: irreflexive and asymmetric on all names, transitive
\* on names that all hold a layer index and on names none of which does
C39_OrderingWithinOneKindOfName ==
    \A x, y, z \in SortedNames :
        /\ ~Less(x, x)
        /\ Less(x, y) => ~Less(y, x)
        /\ (regex_search(x) <=> regex_search(y)) /\ (regex_search(y) <=> regex_search(z))
              => ((Less(x, y) /\ Less(y, z)) => Less(x, z))

\* SEC_9.PNG < SEC_10.PNG by the index, SEC_10.PNG < SEC_5.BMP and
\* SEC_5.BMP < SEC_9.PNG by the text: a cycle
C39_Witness ==
    /\ sorter.pc = "returned"
    /\ sorter.a = SecPath(Str(<<"9">>))
    /\ sorter.b = SecPath(Str(<<"1","0">>))
    /\ sorter.c = Str(<<"S","E","C","_","5",".","B","M","P">>)
    /\ Less(sorter.a, sorter.b) /\ Less(sorter.b, sorter.c) /\ Less(sorter.c, sorter.a)

====
